---------------------------- MODULE Spec2Model ----------------------------
(***************************************************************************)
(* Load-cell streaming protocol: the length-prefixed frame codec, the      *)
(* exact-N-byte reader, the GUI client's network thread and its bounded     *)
(* queue towards the GTK processing callback, and the producers' senders.   *)
(*                                                                          *)
(* Bytes are the integers 0..255 and a byte string is a sequence of them.   *)
(* A uint32_t / uint64_t VALUE is the sequence of its 4 / 8 base-256 digits,*)
(* most significant first, so that 64-bit values never leave the range of   *)
(* the checker's integers.  The hosts are little-endian (the programs are   *)
(* Winsock programs; c2.c selects its swap under __LITTLE_ENDIAN), so the   *)
(* memory image of a value that send()/recv() move is the digit sequence    *)
(* reversed.                                                                *)
(***************************************************************************)
EXTENDS Integers, Sequences, FiniteSets, TLC

-----------------------------------------------------------------------------
(* String literals of the sources, as byte strings.                         *)

END_OF_TRANSMISSION == <<69, 78, 68, 95, 79, 70, 95, 84, 82, 65, 78, 83, 77, 73, 83, 83, 73, 79, 78>>
NO_FILE_SELECTED == <<78, 79, 95, 70, 73, 76, 69, 95, 83, 69, 76, 69, 67, 84, 69, 68>>
NO_FILES_IN_FOLDER == <<78, 79, 95, 70, 73, 76, 69, 83, 95, 73, 78, 95, 70, 79, 76, 68, 69, 82>>
\* "NO_FILE_FOUND:"
NO_FILE_FOUND_ == <<78, 79, 95, 70, 73, 76, 69, 95, 70, 79, 85, 78, 68, 58>>
\* "FILE_NOT_FOUND"
FILE_NOT_FOUND == <<70, 73, 76, 69, 95, 78, 79, 84, 95, 70, 79, 85, 78, 68>>
\* "INTERVAL:"
KEY_INTERVAL == <<73, 78, 84, 69, 82, 86, 65, 76, 58>>
\* "MODE:"
KEY_MODE == <<77, 79, 68, 69, 58>>
\* "ADC:"
KEY_ADC == <<65, 68, 67, 58>>

NUL == 0
LF == 10

-----------------------------------------------------------------------------
(* The C library on byte strings.                                           *)

Min(a, b) == IF a < b THEN a ELSE b

Take(s, n) == SubSeq(s, 1, Min(n, Len(s)))

Drop(s, n) == SubSeq(s, Min(n, Len(s)) + 1, Len(s))

Reverse(s) == [i \in 1..Len(s) |-> s[Len(s) + 1 - i]]

\* Index of the first i with s[i] = b, or Len(s) + 1.
FirstAt(s, b, i) ==
    IF \E j \in i..Len(s) : s[j] = b
    THEN CHOOSE j \in i..Len(s) : s[j] = b /\ \A k \in i..(j - 1) : s[k] # b
    ELSE Len(s) + 1

\* The C string held in a buffer that is NUL-terminated after its last byte.
CStr(buf) == SubSeq(buf, 1, FirstAt(buf, NUL, 1) - 1)

\* strncmp(s, p, strlen(p)) == 0
IsPrefix(p, s) == Len(p) <= Len(s) /\ SubSeq(s, 1, Len(p)) = p

\* strstr(s, p) != NULL
Strstr(s, p) == \E i \in 0..(Len(s) - Len(p)) : SubSeq(s, i + 1, i + Len(p)) = p

\* strstr(s, p) as the suffix of s that starts at the first occurrence.
RECURSIVE StrstrFrom(_, _)
StrstrFrom(s, p) ==
    IF IsPrefix(p, s) THEN s ELSE StrstrFrom(Tail(s), p)

\* The tokens strtok(s, "\n") returns one after the other: the maximal runs of
\* bytes other than '\n'.
RECURSIVE Strtok(_)
Strtok(s) ==
    IF s = <<>> THEN <<>>
    ELSE LET e == FirstAt(s, LF, 1) IN
         IF e = 1 THEN Strtok(Tail(s))
         ELSE <<SubSeq(s, 1, e - 1)>> \o Strtok(Drop(s, e))

IsSpace(b) == b \in {32, 9, 10, 11, 12, 13}

IsDigit(b) == b >= 48 /\ b <= 57

RECURSIVE SkipSpace(_)
SkipSpace(s) == IF s # <<>> /\ IsSpace(s[1]) THEN SkipSpace(Tail(s)) ELSE s

\* The value of the leading run of decimal digits of s, continuing from acc.
RECURSIVE Digits(_, _)
Digits(s, acc) ==
    IF s # <<>> /\ IsDigit(s[1]) THEN Digits(Tail(s), acc * 10 + (s[1] - 48))
    ELSE acc

\* sscanf(s, "<key>%d", &v): the literal must match at the start of s; %d skips
\* white space, takes an optional sign and at least one digit.  n is the
\* number of conversions made (0 or 1).
Sscanf_d(s, key) ==
    IF ~IsPrefix(key, s) THEN [n |-> 0, v |-> 0]
    ELSE LET r == SkipSpace(Drop(s, Len(key)))
             neg == r # <<>> /\ r[1] = 45
             d == IF r # <<>> /\ r[1] \in {43, 45} THEN Tail(r) ELSE r
         IN  IF d # <<>> /\ IsDigit(d[1])
             THEN [n |-> 1, v |-> IF neg THEN 0 - Digits(d, 0) ELSE Digits(d, 0)]
             ELSE [n |-> 0, v |-> 0]

\* The leading run of bytes of s that are not white space.
RECURSIVE Word(_)
Word(s) == IF s # <<>> /\ ~IsSpace(s[1]) THEN <<s[1]>> \o Word(Tail(s)) ELSE <<>>

\* sscanf(s, "<key>%s", v): the literal must match at the start of s; %s skips
\* white space and takes the bytes up to the next white space or the end.
Sscanf_s(s, key) ==
    IF ~IsPrefix(key, s) THEN [n |-> 0, v |-> <<>>]
    ELSE LET w == Word(SkipSpace(Drop(s, Len(key))))
         IN  IF w # <<>> THEN [n |-> 1, v |-> w] ELSE [n |-> 0, v |-> <<>>]

-----------------------------------------------------------------------------
(* Byte order.                                                              *)

\* The value v (0 <= v < 2^31) as a uint32_t.
U32(v) == <<(v \div 16777216) % 256, (v \div 65536) % 256, (v \div 256) % 256, v % 256>>

\* The value v (0 <= v < 2^31) as a uint64_t.
U64(v) == <<0, 0, 0, 0>> \o U32(v)

\* A uint32_t / uint64_t too large for the checker's integers.
HUGE == 8388607 * 256 + 255

\* The number a value stands for, HUGE when it is 2^31 - 1 or more.
ValueOf(w) ==
    LET n == Len(w)
        digit(k) == IF k < n THEN w[n - k] ELSE 0
    IN  IF (\E i \in 1..(n - 4) : w[i] # 0) \/ digit(3) >= 128 THEN HUGE
        ELSE digit(3) * 16777216 + digit(2) * 65536 + digit(1) * 256 + digit(0)

\* What send() reads and recv() writes for a value: its memory image.
MemoryImage(w) == Reverse(w)

FromMemory(bytes) == Reverse(bytes)

\* htonl / ntohl on a little-endian host: the 32-bit byte swap.
htonl(w) == Reverse(w)

ntohl(w) == Reverse(w)

\* val & 0xFFFFFFFF and val >> 32 of a uint64_t, as uint32_t.
Low32(w) == SubSeq(w, 5, 8)

High32(w) == SubSeq(w, 1, 4)

\* (a << 32) | b for uint32_t a, b.
Compose64(a, b) == a \o b

-----------------------------------------------------------------------------
(* Sizes fixed by the sources.                                              *)

FILENAME_LENGTH_BYTES == 4
FILE_CONTENT_LENGTH_BYTES == 8
CONFIG_LENGTH_BYTES == 4
\* sizeof(file_name) in the GUI client's network thread.
FILE_NAME_SIZE == 256
\* The number of slots of data_queue.
QUEUE_SIZE == 10
\* int interval_ms = 20
DEFAULT_INTERVAL_MS == 20
\* char mode[50] = "interval"
MODE_SIZE == 50
DEFAULT_MODE == <<105, 110, 116, 101, 114, 118, 97, 108>>

-----------------------------------------------------------------------------
(* The 64-bit swaps of the four programs.                                   *)

\* A swap of each 32-bit half that would leave the halves where they are.
swap_within_halves(val) == Compose64(htonl(High32(val)), htonl(Low32(val)))

\* 04-07-2025/25.06.2025/server.c, the manual (non-MSVC) branch.
htonll_custom(val) == Compose64(htonl(Low32(val)), htonl(High32(val)))

\* 11-07-2025/server.c
htobe64_custom(host_val) == Compose64(htonl(Low32(host_val)), htonl(High32(host_val)))

\* 04-07-2025/client.c
ntohll_custom(val) == Compose64(ntohl(Low32(val)), htonl(High32(val)))

\* 02-07-2025/client.c and 11-07-2025/c2.c
be64toh_custom(big_endian_val) ==
    Compose64(ntohl(Low32(big_endian_val)), ntohl(High32(big_endian_val)))

-----------------------------------------------------------------------------
(* The producers' fields: the buffer each send() call is given.             *)

\* send_file: filename_length_net
FilenameLengthField(name) == MemoryImage(htonl(U32(Len(name))))

\* send_file: file_content_length_net
ContentLengthField(n) == MemoryImage(htonll_custom(U64(n)))

\* send_file_by_path / send_control_message: net_file_content_len
ContentLengthFieldBe64(n) == MemoryImage(htobe64_custom(U64(n)))

\* send_files_thread_func: config_len_net; send_config: net_config_len
ConfigLengthField(text) == MemoryImage(htonl(U32(Len(text))))

\* The bytes of one frame when every send() of send_file takes its whole buffer.
SendFileBytes(name, content) ==
    FilenameLengthField(name) \o name \o ContentLengthField(Len(content)) \o content

\* The same for send_file_by_path and send_control_message.
SendFileByPathBytes(name, content) ==
    FilenameLengthField(name) \o name \o ContentLengthFieldBe64(Len(content)) \o content

SendConfigBytes(text) == ConfigLengthField(text) \o text

RECURSIVE FramesBytes(_, _)
FramesBytes(frames, producer) ==
    IF frames = <<>> THEN <<>>
    ELSE (IF producer = "send_file"
          THEN SendFileBytes(frames[1].name, frames[1].content)
          ELSE SendFileByPathBytes(frames[1].name, frames[1].content))
         \o FramesBytes(Tail(frames), producer)

\* Everything a producer session puts on the connection before it closes it,
\* cut short after s.cut bytes when the connection breaks.
SessionBytes(s) ==
    Take(SendConfigBytes(s.config) \o FramesBytes(s.frames, s.producer), s.cut)

-----------------------------------------------------------------------------
(* The GUI client's decoding of what it has received.                       *)

\* The while loop over strtok(config_data_bytes, "\n").
RECURSIVE ConfigLines(_, _)
ConfigLines(lines, interval) ==
    IF lines = <<>> THEN interval
    ELSE LET r == Sscanf_d(lines[1], KEY_INTERVAL) IN
         ConfigLines(Tail(lines),
                     IF Strstr(lines[1], KEY_INTERVAL) /\ r.n = 1 THEN r.v ELSE interval)

ParseConfig(config_data_bytes) ==
    ConfigLines(Strtok(CStr(config_data_bytes)), DEFAULT_INTERVAL_MS)

\* The while loop over strtok(line_content_ptr, "\n"): raw_adc_values.
RECURSIVE AdcLines(_)
AdcLines(lines) ==
    IF lines = <<>> THEN <<>>
    ELSE LET r == Sscanf_d(lines[1], KEY_ADC) IN
         (IF Strstr(lines[1], KEY_ADC) /\ r.n = 1 THEN <<r.v>> ELSE <<>>)
             \o AdcLines(Tail(lines))

ParseAdc(file_content_data) == AdcLines(Strtok(CStr(file_content_data)))

\* strcmp / strstr tests that end the receive loop of the GUI client.
IsEndOfTransmission(name) == name = END_OF_TRANSMISSION

IsServerMessage(name) ==
    \/ Strstr(name, NO_FILE_FOUND_)
    \/ name = NO_FILE_SELECTED
    \/ name = NO_FILES_IN_FOLDER

-----------------------------------------------------------------------------
(* The circular buffers of the GUI client, 04-07-2025/client.c:163.         *)
(* A double is an integer (an ADC value), a weight computed from one, a     *)
(* value the DSP chain computed, or NaN.                                    *)

PLOT_BUFFER_SIZE == 500
DSP_BUFFER_SIZE == 500
FFT_WINDOW_SIZE == 256
FIR_NUM_TAPS == 51

NAN == [nan |-> TRUE]

\* A slot of malloc'ed memory that was never written.
Indeterminate == [indeterminate |-> TRUE]

\* cb->data = malloc(...); head = tail = count = 0; the slots written so far
\* are the domain of data.
init_circular_buffer(max_size) ==
    [data |-> <<>>, head |-> 0, tail |-> 0, count |-> 0, max_size |-> max_size]

\* cb->data[i]
Slot(cb, i) == IF i + 1 \in DOMAIN cb.data THEN cb.data[i + 1] ELSE Indeterminate

\* cb->data[i] = value
Store(cb, i, value) ==
    [k \in (DOMAIN cb.data) \cup {i + 1} |-> IF k = i + 1 THEN value ELSE cb.data[k]]

\* memcpy(dst, cb->data + from, n * sizeof(double))
Memcpy(cb, from, n) == [k \in 1..n |-> Slot(cb, from + k - 1)]

\* An append that would never move head.
append_keep_head(cb, value) ==
    [cb EXCEPT !.data = Store(cb, cb.tail, value),
               !.tail = (cb.tail + 1) % cb.max_size,
               !.count = IF cb.count < cb.max_size THEN cb.count + 1 ELSE cb.count]

\* An append that would move head on every push.
append_move_head(cb, value) ==
    [cb EXCEPT !.data = Store(cb, cb.tail, value),
               !.tail = (cb.tail + 1) % cb.max_size,
               !.count = IF cb.count < cb.max_size THEN cb.count + 1 ELSE cb.count,
               !.head = (cb.head + 1) % cb.max_size]

append_circular_buffer(cb, value) ==
    [cb EXCEPT !.data = Store(cb, cb.tail, value),
               !.tail = (cb.tail + 1) % cb.max_size,
               !.count = IF cb.count < cb.max_size THEN cb.count + 1 ELSE cb.count,
               !.head = IF cb.count < cb.max_size THEN cb.head
                        ELSE (cb.head + 1) % cb.max_size]

\* get_circular_buffer_snapshot: *actual_len and the array returned (<<>> for
\* NULL).
get_circular_buffer_snapshot(cb) ==
    [actual_len |-> cb.count,
     snapshot |->
        IF cb.count = 0 THEN <<>>
        ELSE IF cb.head < cb.tail THEN Memcpy(cb, cb.head, cb.count)
        ELSE LET part1_len == cb.max_size - cb.head
             IN  Memcpy(cb, cb.head, part1_len) \o Memcpy(cb, 0, cb.tail)]

\* A reset that would move the indices and leave count as it is.
clear_keep_count(cb) == [cb EXCEPT !.head = 0, !.tail = 0]

\* head = tail = count = 0: the buffer is emptied, its slots keep their values.
clear_circular_buffer(cb) == [cb EXCEPT !.head = 0, !.tail = 0, !.count = 0]

\* normalize_to_weights of one value: (value / ADC_MAX_VAL - ZERO_CAL) / SCALE_CAL
normalize_to_weights(value) == [weight_of |-> value]

\* int min_dsp_samples = (FIR_NUM_TAPS > FFT_WINDOW_SIZE) ? FIR_NUM_TAPS : FFT_WINDOW_SIZE
min_dsp_samples == IF FIR_NUM_TAPS > FFT_WINDOW_SIZE THEN FIR_NUM_TAPS ELSE FFT_WINDOW_SIZE

\* remove_dc_offset_temp, compute_fft and fir_filter on a window of ADC
\* values: the last value of the window less the mean of the window.
DspChain(window) ==
    [dc_removed |-> window[Len(window)], window_len |-> Len(window)]

-----------------------------------------------------------------------------
(* State.                                                                   *)

VARIABLES
    \* the connection towards the client
    session,                \* what the producer put on the connection (history)
    sock_in,                \* the bytes recv() has not returned yet; then EOF
    \* network_thread_func of the GUI client
    npc,                    \* where the thread is
    rx_len, rx_buf,         \* recvall: len, and buffer[0 .. total_received)
    rx_ret,                 \* <<v>> once the recvall call has returned v
    config_len, interval_ms, filename_length, file_name,
    file_content_length, raw_adc_values,
    network_thread_running, plotting_active,
    net_end,                \* why the receive loop was left (history)
    rx_log,                 \* one entry per frame the loop began (history)
    offered,                \* the batches taken to the queue, in order (history)
    \* the queue between the two threads
    data_queue, queue_head, queue_tail, queue_count,
    queue_lock,             \* owner of the critical section, or "free"
    net_count, gui_count,   \* the register of queue_count++ / queue_count--
    \* the GTK side of the GUI client
    gtk_main,               \* "running", "quit" (gtk_main has returned), "exit"
    sources,                \* ids of the attached GLib sources of the callback
    next_source_id,         \* the id the next attached source gets
    data_processing_source_id,
    gpc,                    \* where process_data_gui_callback is; "idle" outside
    cur_source,             \* the source whose dispatch runs the callback
    g_file_state,
    dequeued,               \* the items pulled from the queue, in order (history)
    \* main() of the command-line client, 02-07-2025/client.c
    cli_pc,                 \* where main() is
    cli_sock,               \* the bytes its recv() has not returned yet; then EOF
    cli_len, cli_buf,       \* recv_all: len, and buf[0 .. total_received)
    cli_ret,                \* <<v>> once the recv_all call has returned v
    cli_interval_ms, cli_mode, filename, file_content_len,
    cli_end,                \* why main() left the loop or exited (history)
    cli_log,                \* one entry per frame the loop began (history)
    \* the server thread of 04-07-2025/25.06.2025/server.c
    srv_in,                 \* the mode chosen and the data folder (input)
    spc,                    \* where send_files_thread_func is
    config_msg, file_list, file_i,
    sf,                     \* the send_file call in progress
    wire,                   \* the bytes the connection has accepted (history)
    sends,                  \* one entry per send() call (history)
    faults,                 \* the send() calls that did not take their whole buffer
    terminate_server_thread, server_running, client_socket_fd,
    \* the circular buffers of the GUI client
    current_raw_buffer, current_filtered_buffer, dsp_raw_adc_buffer,
    written,                \* the calls of write_data_to_file, in order (history)
    \* the sample arrays (raw_adc_values) the GUI client allocates
    mem,                    \* the arrays and the pointers to them
    \* one circular buffer on its own
    one_cb,                 \* the buffer
    pushed,                 \* the values appended since it was last emptied (history)
    snap,                   \* what the last get_circular_buffer_snapshot returned
    \* one content length on its way from a producer to a consumer
    length_host,            \* the producer's uint64_t
    length_net,             \* the 8 bytes it sends, <<>> before
    length_back,            \* the uint64_t a consumer composes, <<>> before
    \* plot_lock of the GUI client
    plot_lock,              \* how many times the GUI thread has entered it and not left
    \* the window of the GUI server and its handlers
    server_thread_id,       \* app_widgets->server_thread_id, 0 or the thread's id
    app_widgets,            \* "allocated" or "freed"
    handler,                \* where the handler of a click is; "idle" outside
    \* process_data of 11-07-2025/c2.c
    file_content,           \* the text strtok has not gone through yet
    raw_count,
    blockSize               \* <<n>> once arm_fir_init_f32 was called with n

netVars == <<npc, rx_len, rx_buf, rx_ret, config_len, interval_ms, filename_length,
             file_name, file_content_length, raw_adc_values, net_end, rx_log,
             offered, net_count>>

connVars == <<session, sock_in>>

queueVars == <<data_queue, queue_head, queue_tail, queue_count, queue_lock>>

flagVars == <<network_thread_running, plotting_active>>

guiVars == <<gtk_main, sources, next_source_id, data_processing_source_id, gpc,
             cur_source, g_file_state, dequeued, gui_count>>

cliVars == <<cli_pc, cli_sock, cli_len, cli_buf, cli_ret, cli_interval_ms, cli_mode,
             filename, file_content_len, cli_end, cli_log>>

srvVars == <<srv_in, spc, config_msg, file_list, file_i, sf, wire, sends, faults,
             terminate_server_thread, server_running, client_socket_fd>>

plotVars == <<current_raw_buffer, current_filtered_buffer, dsp_raw_adc_buffer,
              written>>

memVars == <<mem>>

cbVars == <<one_cb, pushed, snap>>

fnVars == <<length_host, length_net, length_back>>

lockVars == <<plot_lock>>

lifeVars == <<server_thread_id, app_widgets, handler>>

firVars == <<file_content, raw_count, blockSize>>

vars == <<connVars, netVars, queueVars, flagVars, guiVars, cliVars, srvVars,
          plotVars, memVars, cbVars, fnVars, lockVars, lifeVars, firVars>>

NULL == [null |-> TRUE]

\* total_received of the recvall call in progress
total_received == Len(rx_buf)

\* The number of bytes the client has taken from the connection.
consumed == Len(SessionBytes(session)) - Len(sock_in)

-----------------------------------------------------------------------------
(* recvall, 04-07-2025/client.c:326.                                        *)

\* Bound: a recv() returns at most MaxPartial bytes, or all that was asked for.
MaxPartial == 2

RecvSizes(want, avail) ==
    {c \in 1..Min(want, avail) : c <= MaxPartial \/ c = Min(want, avail)}

ReadStates == {"config_len", "config_data", "filename_len", "filename",
               "dummy_len", "content_len", "content"}

\* A recvall that would hand back what it has received so far.
recvall_partial == total_received

\* The value recvall returns when recv() returns <= 0.
recvall_failure == -1

\* A caller that would go round its loop again after a failed recvall.
ContinueAfterReadFailure(pc) ==
    IF pc \in {"config_len", "config_data"} THEN "done" ELSE "loop"

\* Where a caller of recvall goes on -1: during the configuration it closes
\* the socket, clears network_thread_running and returns; in the loop it
\* breaks, to the closesocket after the loop.
AfterReadFailure(pc) ==
    IF pc \in {"config_len", "config_data"} THEN "done" ELSE "close"

\* One pass of the while loop: recv() returns c > 0 bytes; when that
\* completes len, recvall returns total_received.
NetRecv ==
    /\ npc \in ReadStates
    /\ rx_ret = <<>>
    /\ total_received < rx_len
    /\ sock_in # <<>>
    /\ \E c \in RecvSizes(rx_len - total_received, Len(sock_in)) :
          /\ rx_buf' = rx_buf \o Take(sock_in, c)
          /\ sock_in' = Drop(sock_in, c)
          /\ rx_ret' = IF total_received + c = rx_len THEN <<rx_len>> ELSE <<>>
    /\ UNCHANGED <<session, npc, rx_len, config_len, interval_ms, filename_length,
                   file_name, file_content_length, raw_adc_values, net_end, rx_log,
                   offered, net_count, queueVars, flagVars, guiVars, cliVars, srvVars, plotVars, memVars, cbVars, fnVars, lockVars, lifeVars, firVars>>

\* recv() returns <= 0, which it does when the peer has closed the connection
\* and not while the peer keeps it open and sends nothing: recvall returns
\* recvall_failure, which every caller compares with -1.  On -1 the thread returns at once during the
\* configuration, and breaks in the loop.
NetRecvFail ==
    /\ npc \in ReadStates
    /\ rx_ret = <<>>
    /\ total_received < rx_len
    /\ sock_in = <<>> /\ ~session.open
    /\ IF recvall_failure = -1
       THEN /\ npc' = AfterReadFailure(npc)
            /\ network_thread_running' =
                  IF npc' = "done" THEN 0 ELSE network_thread_running
            /\ net_end' = "disconnected"
            /\ UNCHANGED rx_ret
       ELSE /\ rx_ret' = <<recvall_failure>>
            /\ UNCHANGED <<npc, network_thread_running, net_end>>
    /\ UNCHANGED <<connVars, rx_len, rx_buf, config_len, interval_ms,
                   filename_length, file_name, file_content_length,
                   raw_adc_values, rx_log, offered, net_count, queueVars,
                   plotting_active, guiVars, cliVars, srvVars, plotVars, memVars, cbVars, fnVars, lockVars, lifeVars, firVars>>

\* recvall has returned and the caller's test for -1 is false.
Received(field) == npc = field /\ rx_ret # <<>> /\ rx_ret[1] # -1

\* The thread goes on to recvall(sock, ..., len) for the next field; with
\* len = 0 the loop is not entered and recvall returns 0.
Expect(field, len) ==
    /\ npc' = field
    /\ rx_len' = len
    /\ rx_buf' = <<>>
    /\ rx_ret' = IF len = 0 THEN <<0>> ELSE <<>>

-----------------------------------------------------------------------------
(* network_thread_func, 04-07-2025/client.c:337.                            *)

\* No array has been allocated; every pointer is NULL (0).
NoArrays ==
    [arrays |-> <<>>,
     in_slot |-> [i \in 0..(QUEUE_SIZE - 1) |-> 0],
     data_item |-> 0,
     in_state |-> 0]

\* realloc(NULL, ...) of the first sample of a file: a new array, which the
\* network thread's raw_adc_values points to.
Allocate(m) == [m EXCEPT !.arrays = Append(@, [frees |-> 0, stale |-> 0])]

\* The array the network thread's raw_adc_values points to.
NetArray == Len(mem.arrays)

\* free(ptr); free(NULL) does nothing.
Free(m, ptr) ==
    IF ptr = 0 THEN m ELSE [m EXCEPT !.arrays[ptr].frees = @ + 1]

\* A read through ptr: counted when the array has been freed.
Read(m, ptr) ==
    IF ptr # 0 /\ m.arrays[ptr].frees > 0
    THEN [m EXCEPT !.arrays[ptr].stale = @ + 1]
    ELSE m

\* What the actions of the network thread leave alone besides its own state.
NetOnly == UNCHANGED <<session, queueVars, plotting_active, guiVars, cliVars, srvVars, plotVars, memVars, cbVars, fnVars, lockVars, lifeVars, firVars>>

\* The last entry of rx_log with some fields changed.
Logged(e) == [rx_log EXCEPT ![Len(rx_log)] = e]

LastLog == rx_log[Len(rx_log)]

\* network_thread_running = 1
NetStart ==
    /\ npc = "created"
    /\ npc' = "connect"
    /\ network_thread_running' = 1
    /\ UNCHANGED <<sock_in, rx_len, rx_buf, rx_ret, config_len, interval_ms, filename_length,
                   file_name, file_content_length, raw_adc_values, net_end, rx_log,
                   offered, net_count>>
    /\ NetOnly

\* WSAStartup, socket, InetPton and connect succeed.
NetConnect ==
    /\ npc = "connect"
    /\ interval_ms' = DEFAULT_INTERVAL_MS
    /\ Expect("config_len", CONFIG_LENGTH_BYTES)
    /\ UNCHANGED <<sock_in, config_len, filename_length, file_name,
                   file_content_length, raw_adc_values, net_end, rx_log, offered,
                   net_count, network_thread_running>>
    /\ NetOnly

\* One of them fails: network_thread_running = 0; return 1.
NetConnectFail ==
    /\ npc = "connect"
    /\ npc' = "done"
    /\ network_thread_running' = 0
    /\ net_end' = "not connected"
    /\ UNCHANGED <<sock_in, rx_len, rx_buf, rx_ret, config_len, interval_ms, filename_length,
                   file_name, file_content_length, raw_adc_values, rx_log, offered,
                   net_count>>
    /\ NetOnly

\* config_len = ntohl(config_len_network); malloc(config_len + 1)
NetConfigLen ==
    /\ Received("config_len")
    /\ config_len' = ValueOf(ntohl(FromMemory(rx_buf)))
    /\ IF config_len' = HUGE
       THEN /\ npc' = "done"
            /\ network_thread_running' = 0
            /\ net_end' = "malloc failed"
            /\ UNCHANGED <<rx_len, rx_buf, rx_ret>>
       ELSE /\ Expect("config_data", config_len')
            /\ UNCHANGED <<network_thread_running, net_end>>
    /\ UNCHANGED <<sock_in, interval_ms, filename_length, file_name,
                   file_content_length, raw_adc_values, rx_log, offered, net_count>>
    /\ NetOnly

\* The strtok loop over the configuration text.
NetConfigData ==
    /\ Received("config_data")
    /\ interval_ms' = ParseConfig(rx_buf)
    /\ npc' = "loop"
    /\ UNCHANGED <<sock_in, rx_len, rx_buf, rx_ret, config_len, filename_length, file_name,
                   file_content_length, raw_adc_values, net_end, rx_log, offered,
                   net_count, network_thread_running>>
    /\ NetOnly

\* while (plotting_active)
NetLoop ==
    /\ npc = "loop"
    /\ IF plotting_active = 1
       THEN /\ Expect("filename_len", FILENAME_LENGTH_BYTES)
            /\ UNCHANGED net_end
       ELSE /\ npc' = "close"
            /\ net_end' = "stopped"
            /\ UNCHANGED <<rx_len, rx_buf, rx_ret>>
    /\ UNCHANGED <<sock_in, config_len, interval_ms, filename_length, file_name,
                   file_content_length, raw_adc_values, rx_log, offered, net_count,
                   network_thread_running>>
    /\ NetOnly

\* filename_length = ntohl(filename_len_network), cut to sizeof(file_name) - 1.
NetFilenameLen ==
    /\ Received("filename_len")
    /\ LET n == ValueOf(ntohl(FromMemory(rx_buf))) IN
       /\ filename_length' = IF n >= FILE_NAME_SIZE THEN FILE_NAME_SIZE - 1 ELSE n
       /\ rx_log' = Append(rx_log, [at |-> consumed - FILENAME_LENGTH_BYTES,
                                    name_length |-> n,
                                    phase |-> "name",
                                    name |-> <<>>,
                                    content_length |-> 0])
    /\ Expect("filename", filename_length')
    /\ UNCHANGED <<sock_in, config_len, interval_ms, file_name, file_content_length,
                   raw_adc_values, net_end, offered, net_count,
                   network_thread_running>>
    /\ NetOnly

\* file_name[filename_length] = '\0', then the tests on the name.
NetFilename ==
    /\ Received("filename")
    /\ file_name' = CStr(rx_buf)
    /\ IF IsEndOfTransmission(file_name')
       THEN /\ npc' = "close"
            /\ net_end' = "end of transmission"
            /\ rx_log' = Logged([LastLog EXCEPT !.name = file_name', !.phase = "stop"])
            /\ UNCHANGED <<rx_len, rx_buf, rx_ret>>
       ELSE IF IsServerMessage(file_name')
       THEN /\ Expect("dummy_len", FILE_CONTENT_LENGTH_BYTES)
            /\ rx_log' = Logged([LastLog EXCEPT !.name = file_name', !.phase = "message"])
            /\ UNCHANGED net_end
       ELSE /\ Expect("content_len", FILE_CONTENT_LENGTH_BYTES)
            /\ rx_log' = Logged([LastLog EXCEPT !.name = file_name', !.phase = "length"])
            /\ UNCHANGED net_end
    /\ UNCHANGED <<sock_in, config_len, interval_ms, filename_length,
                   file_content_length, raw_adc_values, offered, net_count,
                   network_thread_running>>
    /\ NetOnly

\* The content length of a server message has been read: break.
NetDummyLen ==
    /\ Received("dummy_len")
    /\ npc' = "close"
    /\ net_end' = "server message"
    /\ rx_log' = Logged([LastLog EXCEPT !.phase = "message read"])
    /\ UNCHANGED <<sock_in, rx_len, rx_buf, rx_ret, config_len, interval_ms, filename_length,
                   file_name, file_content_length, raw_adc_values, offered, net_count,
                   network_thread_running>>
    /\ NetOnly

\* file_content_length = ntohll_custom(...); malloc(file_content_length + 1)
NetContentLen ==
    /\ Received("content_len")
    /\ file_content_length' = ValueOf(ntohll_custom(FromMemory(rx_buf)))
    /\ rx_log' = Logged([LastLog EXCEPT !.content_length = file_content_length',
                                        !.phase = "content"])
    /\ IF file_content_length' = HUGE
       THEN /\ npc' = "close"
            /\ net_end' = "malloc failed"
            /\ UNCHANGED <<rx_len, rx_buf, rx_ret>>
       ELSE /\ Expect("content", file_content_length')
            /\ UNCHANGED net_end
    /\ UNCHANGED <<sock_in, config_len, interval_ms, filename_length, file_name,
                   raw_adc_values, offered, net_count, network_thread_running>>
    /\ NetOnly

\* The strtok loop over the content; a file without a valid line is not queued.
NetContent ==
    /\ Received("content")
    /\ raw_adc_values' = ParseAdc(rx_buf)
    /\ rx_log' = Logged([LastLog EXCEPT !.phase = "done"])
    /\ npc' = IF raw_adc_values' # <<>> THEN "enq_lock" ELSE "loop"
    /\ UNCHANGED <<sock_in, rx_len, rx_buf, rx_ret, config_len, interval_ms, filename_length,
                   file_name, file_content_length, net_end, offered, net_count,
                   network_thread_running>>
    /\ mem' = IF raw_adc_values' # <<>> THEN Allocate(mem) ELSE mem
    /\ UNCHANGED <<session, queueVars, plotting_active, guiVars, cliVars, srvVars,
                   plotVars, cbVars, fnVars, lockVars, lifeVars, firVars>>

\* The QueuedData the thread builds: strncpy keeps sizeof(file_name) - 1 bytes.
DataItem ==
    [raw_adc_values |-> raw_adc_values,
     num_samples |-> Len(raw_adc_values),
     interval_ms |-> interval_ms,
     file_name |-> Take(file_name, FILE_NAME_SIZE - 1)]

\* A critical section that would let every thread in.
EnterUnguarded(lock) == TRUE

\* EnterCriticalSection(&queue_lock) returns to a thread only while no
\* other thread is inside the critical section.
EnterCriticalSection(lock) == lock = "free"

NetLock ==
    /\ npc = "enq_lock"
    /\ EnterCriticalSection(queue_lock)
    /\ queue_lock' = "net"
    /\ npc' = "enq_store"
    /\ UNCHANGED <<connVars, rx_len, rx_buf, rx_ret, config_len, interval_ms, filename_length,
                   file_name, file_content_length, raw_adc_values, net_end, rx_log,
                   offered, net_count, data_queue, queue_head, queue_tail,
                   queue_count, flagVars, guiVars, cliVars, srvVars, plotVars, memVars, cbVars, fnVars, lockVars, lifeVars, firVars>>

\* A test that would admit one item more.
HasRoomInclusive(count) == count <= QUEUE_SIZE

\* if (queue_count < 10)
HasRoom(count) == count < QUEUE_SIZE

\* With room, the item is stored at queue_tail and queue_count is loaded for
\* the increment; else the file is dropped and the lock released.
NetEnqueueStore ==
    /\ npc = "enq_store"
    /\ IF HasRoom(queue_count)
       THEN /\ data_queue' = [data_queue EXCEPT ![queue_tail] = DataItem]
            /\ queue_tail' = (queue_tail + 1) % QUEUE_SIZE
            /\ net_count' = queue_count
            /\ offered' = Append(offered, [item |-> DataItem, queued |-> TRUE])
            /\ mem' = [mem EXCEPT !.in_slot[queue_tail] = NetArray]
            /\ npc' = "enq_count"
            /\ UNCHANGED <<queue_lock, raw_adc_values>>
       ELSE /\ offered' = Append(offered, [item |-> DataItem, queued |-> FALSE])
            /\ mem' = Free(mem, NetArray)
            /\ raw_adc_values' = <<>>
            /\ queue_lock' = "free"
            /\ npc' = "loop"
            /\ UNCHANGED <<data_queue, queue_tail, net_count>>
    /\ UNCHANGED <<connVars, rx_len, rx_buf, rx_ret, config_len, interval_ms, filename_length,
                   file_name, file_content_length, net_end, rx_log, queue_head,
                   queue_count, flagVars, guiVars, cliVars, srvVars, plotVars, cbVars, fnVars, lockVars, lifeVars, firVars>>

\* queue_count++ is completed; LeaveCriticalSection(&queue_lock)
NetEnqueueCount ==
    /\ npc = "enq_count"
    /\ queue_count' = net_count + 1
    /\ queue_lock' = "free"
    /\ npc' = "loop"
    /\ UNCHANGED <<connVars, rx_len, rx_buf, rx_ret, config_len, interval_ms, filename_length,
                   file_name, file_content_length, raw_adc_values, net_end, rx_log,
                   offered, net_count, data_queue, queue_head, queue_tail, flagVars,
                   guiVars, cliVars, srvVars, plotVars, memVars, cbVars, fnVars, lockVars, lifeVars, firVars>>

\* closesocket(sock); network_thread_running = 0
NetClose ==
    /\ npc = "close"
    /\ npc' = "done"
    /\ network_thread_running' = 0
    /\ UNCHANGED <<sock_in, rx_len, rx_buf, rx_ret, config_len, interval_ms, filename_length,
                   file_name, file_content_length, raw_adc_values, net_end, rx_log,
                   offered, net_count>>
    /\ NetOnly

NetThread ==
    \/ NetStart \/ NetConnect \/ NetConnectFail
    \/ NetRecv \/ NetRecvFail
    \/ NetConfigLen \/ NetConfigData \/ NetLoop
    \/ NetFilenameLen \/ NetFilename \/ NetDummyLen \/ NetContentLen \/ NetContent
    \/ NetLock \/ NetEnqueueStore \/ NetEnqueueCount \/ NetClose

-----------------------------------------------------------------------------
(* The GTK main loop and process_data_gui_callback,                         *)
(* 04-07-2025/client.c:845.  The callback runs on the GUI thread for the    *)
(* idle source main() attaches and for the timeout source it attaches       *)
(* itself for each file.                                                    *)

\* memset(&g_file_state, 0, sizeof(FileProcessingState))
ZeroFileState ==
    [is_processing_file |-> 0,
     current_file_index |-> 0,
     current_file_num_samples |-> 0,
     current_file_interval_ms |-> 0,
     current_file_name |-> <<>>,
     current_file_raw_adc_values |-> <<>>,
     all_raw_weights_to_save |-> <<>>,
     all_filtered_weights_to_save |-> <<>>,
     last_fir_coefficients_len_to_save |-> 0,
     last_fft_frequencies_len_to_save |-> 0]

\* A cursor that would pass over a sample.
SkipIndex(index) == index + 2

\* g_file_state.current_file_index++
NextIndex(index) == index + 1

\* A test that would leave the last sample of a file out.
HasSamplesLeftButOne(st) == st.current_file_index + 1 < st.current_file_num_samples

\* if (g_file_state.current_file_index < g_file_state.current_file_num_samples)
HasSamplesLeft(st) == st.current_file_index < st.current_file_num_samples

\* What write_data_to_file is given: the name and the sequences with their
\* lengths (all_raw_weights_len_to_save and the like).
write_data_to_file(st) ==
    [file_name |-> st.current_file_name,
     raw_weights_all |-> st.all_raw_weights_to_save,
     raw_len |-> Len(st.all_raw_weights_to_save),
     filtered_weights_all |-> st.all_filtered_weights_to_save,
     filtered_len |-> Len(st.all_filtered_weights_to_save),
     fir_coeff_len |-> st.last_fir_coefficients_len_to_save,
     fft_freq_len |-> st.last_fft_frequencies_len_to_save]

GuiOnly == UNCHANGED <<connVars, netVars, flagVars, cliVars, srvVars, cbVars, fnVars, lockVars, lifeVars, firVars>>

\* The value the callback returns to GLib: G_SOURCE_REMOVE detaches the source
\* that was dispatched.
ReturnToGLib(keep, attached) ==
    /\ sources' = IF keep THEN attached ELSE attached \ {cur_source}
    /\ gpc' = "idle"
    /\ cur_source' = 0

\* The main loop dispatches an attached source; the callback runs up to the
\* point where it needs queue_lock.  With a file in progress and samples left
\* it consumes one sample and returns G_SOURCE_CONTINUE.
GuiSample ==
    /\ gtk_main = "running" /\ gpc = "idle"
    /\ \E src \in sources :
          /\ g_file_state.is_processing_file = 1
          /\ HasSamplesLeft(g_file_state)
          /\ LET current_raw_adc ==
                     g_file_state.current_file_raw_adc_values[g_file_state.current_file_index + 1]
                 dsp == append_circular_buffer(dsp_raw_adc_buffer, current_raw_adc)
                 current_raw_weight == normalize_to_weights(current_raw_adc)
                 run_dsp == dsp.count >= min_dsp_samples
                 filtered_weight == IF run_dsp
                                    THEN DspChain(get_circular_buffer_snapshot(dsp).snapshot)
                                    ELSE current_raw_weight
             IN  /\ dsp_raw_adc_buffer' = dsp
                 /\ current_raw_buffer' =
                        append_circular_buffer(current_raw_buffer, current_raw_weight)
                 /\ current_filtered_buffer' =
                        append_circular_buffer(current_filtered_buffer,
                            IF dsp.count >= FIR_NUM_TAPS THEN filtered_weight ELSE NAN)
                 /\ g_file_state' =
                        [g_file_state EXCEPT
                           !.current_file_index = NextIndex(@),
                           !.all_raw_weights_to_save = Append(@, current_raw_weight),
                           !.all_filtered_weights_to_save = Append(@, filtered_weight),
                           !.last_fir_coefficients_len_to_save =
                               IF run_dsp THEN FIR_NUM_TAPS ELSE @,
                           !.last_fft_frequencies_len_to_save =
                               IF run_dsp THEN dsp.count \div 2 ELSE @]
    /\ UNCHANGED <<gtk_main, sources, next_source_id, data_processing_source_id, gpc,
                   cur_source, dequeued, gui_count, queueVars, written>>
    /\ mem' = Read(mem, mem.in_state)
    /\ GuiOnly

\* Bound: the allocations of the per-sample path that fail in a run.
MaxFailedAllocations == 1

GuiKeepsLock == UNCHANGED <<connVars, netVars, flagVars, cliVars, srvVars, cbVars,
                            fnVars, lifeVars, firVars>>

\* realloc of all_raw_weights_to_save returns NULL inside the plot_lock
\* section: goto cleanup_current_file_on_error, past LeaveCriticalSection.
\* The state of the file is freed and cleared, the timeout removed, and the
\* callback goes on to the queue with plot_lock entered.
GuiReallocFails ==
    /\ gtk_main = "running" /\ gpc = "idle"
    /\ plot_lock < MaxFailedAllocations
    /\ \E src \in sources :
          /\ g_file_state.is_processing_file = 1
          /\ HasSamplesLeft(g_file_state)
          /\ cur_source' = src
    /\ LET current_raw_adc ==
               g_file_state.current_file_raw_adc_values[g_file_state.current_file_index + 1]
       IN  /\ dsp_raw_adc_buffer' = append_circular_buffer(dsp_raw_adc_buffer, current_raw_adc)
           /\ current_raw_buffer' =
                  append_circular_buffer(current_raw_buffer,
                                         normalize_to_weights(current_raw_adc))
    /\ plot_lock' = plot_lock + 1
    /\ g_file_state' = ZeroFileState
    /\ mem' = [Free(mem, mem.in_state) EXCEPT !.in_state = 0]
    /\ sources' = sources \ {data_processing_source_id}
    /\ data_processing_source_id' = 0
    /\ gpc' = "lock"
    /\ UNCHANGED <<gtk_main, next_source_id, dequeued, gui_count, queueVars,
                   current_filtered_buffer, written>>
    /\ GuiKeepsLock

\* malloc of get_circular_buffer_snapshot returns NULL inside the plot_lock
\* section: goto end_processing_loop_return_continue, past
\* LeaveCriticalSection and current_file_index++.
GuiSnapshotFails ==
    /\ gtk_main = "running" /\ gpc = "idle"
    /\ plot_lock < MaxFailedAllocations
    /\ \E src \in sources :
          /\ g_file_state.is_processing_file = 1
          /\ HasSamplesLeft(g_file_state)
          /\ cur_source' = src
    /\ LET current_raw_adc ==
               g_file_state.current_file_raw_adc_values[g_file_state.current_file_index + 1]
           dsp == append_circular_buffer(dsp_raw_adc_buffer, current_raw_adc)
           current_raw_weight == normalize_to_weights(current_raw_adc)
       IN  /\ dsp.count >= min_dsp_samples
           /\ dsp_raw_adc_buffer' = dsp
           /\ current_raw_buffer' =
                  append_circular_buffer(current_raw_buffer, current_raw_weight)
           /\ g_file_state' =
                  [g_file_state EXCEPT
                     !.all_raw_weights_to_save = Append(@, current_raw_weight)]
    /\ plot_lock' = plot_lock + 1
    /\ mem' = Read(mem, mem.in_state)
    /\ gpc' = "lock"
    /\ UNCHANGED <<gtk_main, sources, next_source_id, data_processing_source_id,
                   dequeued, gui_count, queueVars, current_filtered_buffer, written>>
    /\ GuiKeepsLock

\* All samples of the file are consumed: the data are saved, the state is
\* cleared, the timeout
\* stored in data_processing_source_id is removed, and the callback goes on
\* to the queue.
GuiFinishFile ==
    /\ gtk_main = "running" /\ gpc = "idle"
    /\ \E src \in sources :
          /\ g_file_state.is_processing_file = 1
          /\ ~HasSamplesLeft(g_file_state)
          /\ cur_source' = src
    /\ written' = Append(written, write_data_to_file(g_file_state))
    /\ g_file_state' = ZeroFileState
    /\ mem' = [Free(mem, mem.in_state) EXCEPT !.in_state = 0]
    /\ sources' = sources \ {data_processing_source_id}
    /\ data_processing_source_id' = 0
    /\ gpc' = "lock"
    /\ UNCHANGED <<gtk_main, next_source_id, dequeued, gui_count, queueVars>>
    /\ UNCHANGED <<current_raw_buffer, current_filtered_buffer, dsp_raw_adc_buffer>>
    /\ GuiOnly

\* No file is in progress: the callback goes straight to the queue.
GuiPoll ==
    /\ gtk_main = "running" /\ gpc = "idle"
    /\ \E src \in sources :
          /\ g_file_state.is_processing_file = 0
          /\ cur_source' = src
    /\ gpc' = "lock"
    /\ UNCHANGED <<gtk_main, sources, next_source_id, data_processing_source_id,
                   g_file_state, dequeued, gui_count, queueVars>>
    /\ UNCHANGED <<plotVars, memVars>>
    /\ GuiOnly

\* EnterCriticalSection(&queue_lock)
GuiLock ==
    /\ gpc = "lock"
    /\ EnterCriticalSection(queue_lock)
    /\ queue_lock' = "gui"
    /\ gpc' = "dequeue"
    /\ UNCHANGED <<gtk_main, sources, next_source_id, data_processing_source_id,
                   cur_source, g_file_state, dequeued, gui_count, data_queue,
                   queue_head, queue_tail, queue_count>>
    /\ UNCHANGED <<plotVars, memVars>>
    /\ GuiOnly

\* A dequeue that would leave queue_head where it is.
KeepHead(head) == head

\* queue_head = (queue_head + 1) % 10
AdvanceHead(head) == (head + 1) % QUEUE_SIZE

\* if (queue_count > 0) the item at queue_head is taken and queue_count is
\* loaded for the decrement; else the lock is released.
GuiDequeueLoad ==
    /\ gpc = "dequeue"
    /\ IF queue_count > 0
       THEN /\ dequeued' = Append(dequeued, data_queue[queue_head])
            /\ mem' = [mem EXCEPT !.data_item = mem.in_slot[queue_head]]
            /\ queue_head' = AdvanceHead(queue_head)
            /\ gui_count' = queue_count
            /\ gpc' = "dequeue_count"
            /\ UNCHANGED queue_lock
       ELSE /\ queue_lock' = "free"
            /\ gpc' = "check_running"
            /\ UNCHANGED <<dequeued, queue_head, gui_count, mem>>
    /\ UNCHANGED <<gtk_main, sources, next_source_id, data_processing_source_id,
                   cur_source, g_file_state, data_queue, queue_tail, queue_count>>
    /\ UNCHANGED plotVars
    /\ GuiOnly

\* queue_count-- is completed, g_file_state is set up from the item, the lock
\* is released, a timeout is attached and the callback returns
\* G_SOURCE_CONTINUE.
GuiDequeueCount ==
    /\ gpc = "dequeue_count"
    /\ queue_count' = gui_count - 1
    /\ LET data_item == dequeued[Len(dequeued)] IN
       g_file_state' =
          [ZeroFileState EXCEPT
             !.is_processing_file = 1,
             !.current_file_index = 0,
             !.current_file_num_samples = data_item.num_samples,
             !.current_file_interval_ms = data_item.interval_ms,
             !.current_file_name = data_item.file_name,
             !.current_file_raw_adc_values = data_item.raw_adc_values]
    /\ current_raw_buffer' = clear_circular_buffer(current_raw_buffer)
    /\ current_filtered_buffer' = clear_circular_buffer(current_filtered_buffer)
    /\ dsp_raw_adc_buffer' = clear_circular_buffer(dsp_raw_adc_buffer)
    /\ UNCHANGED written
    /\ mem' = [mem EXCEPT !.in_state = mem.data_item, !.data_item = 0]
    /\ queue_lock' = "free"
    /\ data_processing_source_id' = next_source_id
    /\ next_source_id' = next_source_id + 1
    /\ ReturnToGLib(TRUE, sources \cup {next_source_id})
    /\ UNCHANGED <<gtk_main, dequeued, gui_count, data_queue, queue_head, queue_tail>>
    /\ GuiOnly

\* The last statement of the callback: the source is kept when a timeout is
\* stored in data_processing_source_id.
FinalReturn == ReturnToGLib(data_processing_source_id # 0, sources)

\* if (!network_thread_running && ...): the flag is read without the lock.
GuiCheckRunning ==
    /\ gpc = "check_running"
    /\ IF network_thread_running = 0
       THEN /\ gpc' = "check_count"
            /\ UNCHANGED <<sources, cur_source>>
       ELSE FinalReturn
    /\ UNCHANGED <<gtk_main, next_source_id, data_processing_source_id, g_file_state,
                   dequeued, gui_count, queueVars>>
    /\ UNCHANGED <<plotVars, memVars>>
    /\ GuiOnly

\* ... && queue_count == 0 && !g_file_state.is_processing_file: gtk_main_quit()
\* and G_SOURCE_REMOVE.
GuiCheckCount ==
    /\ gpc = "check_count"
    /\ IF queue_count = 0 /\ g_file_state.is_processing_file = 0
       THEN /\ gtk_main' = "quit"
            /\ ReturnToGLib(FALSE, sources)
       ELSE /\ FinalReturn
            /\ UNCHANGED gtk_main
    /\ UNCHANGED <<next_source_id, data_processing_source_id, g_file_state,
                   dequeued, gui_count, queueVars>>
    /\ UNCHANGED <<plotVars, memVars>>
    /\ GuiOnly

\* on_window_destroy: the user closes the window while the loop is idle.
OnWindowDestroy ==
    /\ gtk_main = "running" /\ gpc = "idle"
    /\ plotting_active' = 0
    /\ sources' = sources \ {data_processing_source_id}
    /\ data_processing_source_id' = 0
    /\ gtk_main' = "quit"
    /\ UNCHANGED <<connVars, netVars, queueVars, network_thread_running,
                   next_source_id, gpc, cur_source, g_file_state, dequeued,
                   gui_count, cliVars, srvVars, plotVars, memVars, cbVars, fnVars, lockVars, lifeVars, firVars>>

\* main() after gtk_main(): WaitForSingleObject(network_thread_handle, INFINITE),
\* then free(g_file_state.current_file_raw_adc_values) and the other frees.
MainJoin ==
    /\ gtk_main = "quit"
    /\ npc = "done"
    /\ gtk_main' = "exit"
    /\ mem' = Free(mem, mem.in_state)
    /\ UNCHANGED <<connVars, netVars, queueVars, flagVars, sources, next_source_id,
                   data_processing_source_id, gpc, cur_source, g_file_state,
                   dequeued, gui_count, cliVars, srvVars, plotVars, cbVars, fnVars, lockVars, lifeVars, firVars>>

GuiThread ==
    \/ GuiSample \/ GuiFinishFile \/ GuiPoll \/ GuiLock
    \/ GuiDequeueLoad \/ GuiDequeueCount \/ GuiCheckRunning \/ GuiCheckCount
    \/ OnWindowDestroy \/ MainJoin

-----------------------------------------------------------------------------
(* The command-line client, 02-07-2025/client.c:93 (11-07-2025/c2.c has the *)
(* same receive loop).                                                      *)

cli_total_received == Len(cli_buf)

cli_consumed == Len(SessionBytes(session)) - Len(cli_sock)

CliOnly == UNCHANGED <<session, sock_in, netVars, queueVars, flagVars, guiVars, srvVars,
                      plotVars, memVars, cbVars, fnVars, lockVars, lifeVars, firVars>>

CliReadStates == {"config_len", "config_data", "filename_len", "filename",
                  "content_len", "content"}

\* recv_all, one pass of the while loop: recv() returns c > 0 bytes; when
\* that completes len, recv_all returns total_received.
CliRecv ==
    /\ cli_pc \in CliReadStates
    /\ cli_ret = <<>>
    /\ cli_total_received < cli_len
    /\ cli_sock # <<>>
    /\ \E c \in RecvSizes(cli_len - cli_total_received, Len(cli_sock)) :
          /\ cli_buf' = cli_buf \o Take(cli_sock, c)
          /\ cli_sock' = Drop(cli_sock, c)
          /\ cli_ret' = IF cli_total_received + c = cli_len THEN <<cli_len>> ELSE <<>>
    /\ UNCHANGED <<cli_pc, cli_len, cli_interval_ms, cli_mode, filename, file_content_len,
                   cli_end, cli_log>>
    /\ CliOnly

\* recv() returns 0 (the connection is closed) or SOCKET_ERROR: recv_all
\* returns bytes_received.
CliRecvClosed ==
    /\ cli_pc \in CliReadStates
    /\ cli_ret = <<>>
    /\ cli_total_received < cli_len
    /\ cli_sock = <<>>
    /\ \E bytes_received \in {0, -1} : cli_ret' = <<bytes_received>>
    /\ UNCHANGED <<cli_pc, cli_sock, cli_len, cli_buf, cli_interval_ms, cli_mode, filename,
                   file_content_len, cli_end, cli_log>>
    /\ CliOnly

\* recv_all has returned v to a caller waiting for the field.
CliReturned(field) == cli_pc = field /\ cli_ret # <<>>

\* The test every caller makes: if (recv_all(...) <= 0)
RecvAllFailed == cli_ret[1] <= 0

\* main() goes on to recv_all(client_sock, ..., len); with len = 0 the loop
\* is not entered and recv_all returns total_received = 0.
CliExpect(field, len) ==
    /\ cli_pc' = field
    /\ cli_len' = len
    /\ cli_buf' = <<>>
    /\ cli_ret' = IF len = 0 THEN <<0>> ELSE <<>>

\* break, or exit(EXIT_FAILURE), with the reason printed.
CliLeave(pc, why) ==
    /\ cli_pc' = pc
    /\ cli_end' = why
    /\ UNCHANGED <<cli_len, cli_buf, cli_ret>>

CliLogged(e) == [cli_log EXCEPT ![Len(cli_log)] = e]

CliLastLog == cli_log[Len(cli_log)]

\* socket() and connect() succeed.
CliConnect ==
    /\ cli_pc = "start"
    /\ CliExpect("config_len", CONFIG_LENGTH_BYTES)
    /\ UNCHANGED <<cli_sock, cli_interval_ms, cli_mode, filename, file_content_len, cli_end,
                   cli_log>>
    /\ CliOnly

\* One of them fails: exit(EXIT_FAILURE).
CliConnectFail ==
    /\ cli_pc = "start"
    /\ CliLeave("exit", "not connected")
    /\ UNCHANGED <<cli_sock, cli_interval_ms, cli_mode, filename, file_content_len, cli_log>>
    /\ CliOnly

\* config_len = ntohl(net_config_len); malloc(config_len + 1)
CliConfigLen ==
    /\ CliReturned("config_len")
    /\ IF RecvAllFailed
       THEN CliLeave("exit", "disconnected")
       ELSE LET config_len_ == ValueOf(ntohl(FromMemory(cli_buf))) IN
            IF config_len_ = HUGE
            THEN CliLeave("exit", "malloc failed")
            ELSE /\ CliExpect("config_data", config_len_)
                 /\ UNCHANGED cli_end
    /\ UNCHANGED <<cli_sock, cli_interval_ms, cli_mode, filename, file_content_len, cli_log>>
    /\ CliOnly

\* interval_ms = 20, replaced by what sscanf reads at the first "INTERVAL:".
CliParseInterval(config_data) ==
    IF Strstr(config_data, KEY_INTERVAL)
    THEN LET r == Sscanf_d(StrstrFrom(config_data, KEY_INTERVAL), KEY_INTERVAL) IN
         IF r.n = 1 THEN r.v ELSE DEFAULT_INTERVAL_MS
    ELSE DEFAULT_INTERVAL_MS

\* char mode[50] = "interval"; strstr(config_data, "MODE:") and
\* sscanf(mode_ptr, "MODE:%s", mode).  A word of MODE_SIZE bytes or more is
\* written past the end of mode: what mode then holds is not determined.
CliParseMode(config_data) ==
    IF Strstr(config_data, KEY_MODE)
    THEN LET r == Sscanf_s(StrstrFrom(config_data, KEY_MODE), KEY_MODE) IN
         IF r.n = 0 THEN {DEFAULT_MODE}
         ELSE IF Len(r.v) < MODE_SIZE THEN {r.v}
         ELSE {r.v, Take(r.v, MODE_SIZE - 1), Indeterminate}
    ELSE {DEFAULT_MODE}

CliConfigData ==
    /\ CliReturned("config_data")
    /\ IF RecvAllFailed
       THEN /\ CliLeave("exit", "disconnected")
            /\ UNCHANGED <<cli_interval_ms, cli_mode>>
       ELSE /\ cli_interval_ms' = CliParseInterval(CStr(cli_buf))
            /\ cli_mode' \in CliParseMode(CStr(cli_buf))
            /\ CliExpect("filename_len", FILENAME_LENGTH_BYTES)
            /\ UNCHANGED cli_end
    /\ UNCHANGED <<cli_sock, filename, file_content_len, cli_log>>
    /\ CliOnly

\* filename_len = ntohl(net_filename_len); malloc(filename_len + 1)
CliFilenameLen ==
    /\ CliReturned("filename_len")
    /\ IF RecvAllFailed
       THEN /\ CliLeave("closed", "disconnected")
            /\ UNCHANGED cli_log
       ELSE LET filename_len == ValueOf(ntohl(FromMemory(cli_buf))) IN
            /\ cli_log' = Append(cli_log, [at |-> cli_consumed - FILENAME_LENGTH_BYTES,
                                           name_length |-> filename_len,
                                           phase |-> "name",
                                           name |-> <<>>,
                                           content_length |-> 0])
            /\ IF filename_len = HUGE
               THEN CliLeave("closed", "malloc failed")
               ELSE /\ CliExpect("filename", filename_len)
                    /\ UNCHANGED cli_end
    /\ UNCHANGED <<cli_sock, cli_interval_ms, cli_mode, filename, file_content_len>>
    /\ CliOnly

\* filename[filename_len] = '\0'
CliFilename ==
    /\ CliReturned("filename")
    /\ IF RecvAllFailed
       THEN /\ CliLeave("closed", "disconnected")
            /\ UNCHANGED <<filename, cli_log>>
       ELSE /\ filename' = CStr(cli_buf)
            /\ cli_log' = CliLogged([CliLastLog EXCEPT !.name = filename',
                                                       !.phase = "length"])
            /\ CliExpect("content_len", FILE_CONTENT_LENGTH_BYTES)
            /\ UNCHANGED cli_end
    /\ UNCHANGED <<cli_sock, cli_interval_ms, cli_mode, file_content_len>>
    /\ CliOnly

\* The strcmp / strstr tests on the name, made after the content length is read.
IsControlMessage(name) ==
    \/ name = END_OF_TRANSMISSION
    \/ Strstr(name, NO_FILE_FOUND_)
    \/ name = NO_FILE_SELECTED
    \/ name = NO_FILES_IN_FOLDER

\* file_content_len = be64toh(net_file_content_len); control messages break;
\* malloc(file_content_len + 1)
CliContentLen ==
    /\ CliReturned("content_len")
    /\ IF RecvAllFailed
       THEN /\ CliLeave("closed", "disconnected")
            /\ UNCHANGED <<file_content_len, cli_log>>
       ELSE /\ file_content_len' = ValueOf(be64toh_custom(FromMemory(cli_buf)))
            /\ IF IsControlMessage(filename)
               THEN /\ CliLeave("closed", "control message")
                    /\ cli_log' = CliLogged([CliLastLog EXCEPT
                                       !.content_length = file_content_len',
                                       !.phase = "message read"])
               ELSE /\ cli_log' = CliLogged([CliLastLog EXCEPT
                                       !.content_length = file_content_len',
                                       !.phase = "content"])
                    /\ IF file_content_len' = HUGE
                       THEN CliLeave("closed", "malloc failed")
                       ELSE /\ CliExpect("content", file_content_len')
                            /\ UNCHANGED cli_end
    /\ UNCHANGED <<cli_sock, cli_interval_ms, cli_mode, filename>>
    /\ CliOnly

\* process_data(file_content, filename, interval_ms) and the next pass of while (1).
CliContent ==
    /\ CliReturned("content")
    /\ IF RecvAllFailed
       THEN /\ CliLeave("closed", "disconnected")
            /\ UNCHANGED cli_log
       ELSE /\ cli_log' = CliLogged([CliLastLog EXCEPT !.phase = "done"])
            /\ CliExpect("filename_len", FILENAME_LENGTH_BYTES)
            /\ UNCHANGED cli_end
    /\ UNCHANGED <<cli_sock, cli_interval_ms, cli_mode, filename, file_content_len>>
    /\ CliOnly

CliClient ==
    \/ CliConnect \/ CliConnectFail \/ CliRecv \/ CliRecvClosed
    \/ CliConfigLen \/ CliConfigData
    \/ CliFilenameLen \/ CliFilename \/ CliContentLen \/ CliContent

-----------------------------------------------------------------------------
(* The server thread, 04-07-2025/25.06.2025/server.c:629, and send_file,    *)
(* server.c:548.                                                            *)

BUFFER_SIZE == 4096

DOT_TXT == <<46, 116, 120, 116>>               \* ".txt"
CONFIG_MODE_FREQ == <<77, 79, 68, 69, 58, 70, 82, 69, 81, 44, 70, 82, 69, 81, 95, 72, 90, 58>>    \* "MODE:FREQ,FREQ_HZ:"
HZ_LOWER == <<104, 122>>                        \* "hz"
HZ_SUFFIX == <<72, 122>>                        \* "Hz"

\* g_snprintf("%d", n) for n >= 0
RECURSIVE FormatD(_)
FormatD(n) == IF n < 10 THEN <<48 + n>> ELSE FormatD(n \div 10) \o <<48 + (n % 10)>>

\* g_ascii_strdown
AsciiStrdown(str) == [i \in 1..Len(str) |-> IF str[i] \in 65..90 THEN str[i] + 32 ELSE str[i]]

\* strcmp(a, b) > 0 on NUL-terminated strings
StrcmpGreater(a, b) ==
    \E k \in 1..Len(a) :
       /\ \A j \in 1..(k - 1) : j <= Len(b) /\ a[j] = b[j]
       /\ (k > Len(b) \/ a[k] > b[k])

\* The two nested loops that order file_list: the result is the ascending
\* arrangement of the names.
RECURSIVE SortNames(_)
SortNames(list) ==
    IF list = <<>> THEN <<>>
    ELSE LET m == CHOOSE i \in 1..Len(list) :
                     \A j \in 1..Len(list) :
                        ~StrcmpGreater(list[i].name, list[j].name) \/ j = i
                        \/ (list[i].name = list[j].name /\ i < j)
         IN <<list[m]>> \o SortNames([k \in 1..(Len(list) - 1) |->
                                         IF k < m THEN list[k] ELSE list[k + 1]])

\* The filepath "": no file.
NoFile == [name |-> <<>>, content |-> <<>>, access_ok |-> FALSE, fopen_ok |-> FALSE]

NoCall == [pc |-> "off", file |-> NoFile, basename |-> <<>>, rest |-> <<>>, ret |-> ""]

\* Bound: the number of send() calls of a session that do not take their
\* whole buffer.
MaxFaults == 1

\* What a send() of len bytes can return: len, fewer, or an error; only
\* an error once the socket is closed.
SendOutcomes(len) ==
    IF client_socket_fd # "open" THEN {-1}
    ELSE {len} \cup (IF faults < MaxFaults
                     THEN {-1} \cup {k \in 1..(len - 1) : k = 1 \/ k = len - 1}
                     ELSE {})

\* send(conn_fd, buffer, len, 0) returns r; checked: the caller tests r < 0.
Send(buffer, field, r, checked) ==
    /\ wire' = wire \o Take(buffer, IF r < 0 THEN 0 ELSE r)
    /\ sends' = Append(sends, [field |-> field, len |-> Len(buffer), ret |-> r,
                               failed |-> checked /\ r < 0])
    /\ faults' = faults + (IF r # Len(buffer) THEN 1 ELSE 0)

SrvOnly == UNCHANGED <<connVars, netVars, queueVars, flagVars, guiVars, cliVars,
                      plotVars, memVars, cbVars, fnVars, lockVars, lifeVars, firVars>>

\* send_file(conn_fd, filepath, file_basename) is called; spc continues at ret.
Call(file, basename, ret) ==
    /\ sf' = [pc |-> "enter", file |-> file, basename |-> basename,
              rest |-> file.content, ret |-> ret]
    /\ spc' = "send_file"

\* send_file returns.
Return ==
    /\ sf' = NoCall
    /\ spc' = sf.ret

\* socket, setsockopt, bind, listen and accept; any of them can fail, and
\* accept fails once the window is closed.
SrvAccept ==
    /\ spc = "created"
    /\ \/ /\ ~terminate_server_thread
          /\ client_socket_fd' = "open"
          /\ spc' = "config"
       \/ /\ spc' = "cleanup"
          /\ UNCHANGED client_socket_fd
    /\ UNCHANGED <<srv_in, config_msg, file_list, file_i, sf, wire, sends, faults,
                   terminate_server_thread, server_running>>
    /\ SrvOnly

\* What config_msg[256] can hold when no branch has written it.
UninitializedConfigMsg == {<<>>, <<63, 63>>}

\* config_msg for the mode selected.
SrvConfig ==
    /\ spc = "config"
    /\ LET chosen_interval_ms ==
               IF srv_in.parsed_interval > 0 THEN srv_in.parsed_interval ELSE 100 IN
       CASE srv_in.mode = "interval" ->
               config_msg' = KEY_INTERVAL \o FormatD(chosen_interval_ms)
         [] srv_in.mode = "freq" ->
               config_msg' = CONFIG_MODE_FREQ \o srv_in.freq_str
         [] OTHER -> config_msg' \in UninitializedConfigMsg
    /\ spc' = "config_len"
    /\ UNCHANGED <<srv_in, file_list, file_i, sf, wire, sends, faults,
                   terminate_server_thread, server_running, client_socket_fd>>
    /\ SrvOnly

SrvSendConfigLen ==
    /\ spc = "config_len"
    /\ \E r \in SendOutcomes(CONFIG_LENGTH_BYTES) :
          /\ Send(ConfigLengthField(config_msg), "config length", r, TRUE)
          /\ spc' = IF r < 0 THEN "cleanup" ELSE "config_data"
    /\ UNCHANGED <<srv_in, config_msg, file_list, file_i, sf,
                   terminate_server_thread, server_running, client_socket_fd>>
    /\ SrvOnly

SrvSendConfigData ==
    /\ spc = "config_data"
    /\ \E r \in SendOutcomes(Len(config_msg)) :
          /\ Send(config_msg, "config", r, TRUE)
          /\ spc' = IF r < 0 THEN "cleanup" ELSE "mode"
    /\ UNCHANGED <<srv_in, config_msg, file_list, file_i, sf,
                   terminate_server_thread, server_running, client_socket_fd>>
    /\ SrvOnly

\* The names of the folder that contain ".txt", in readdir order.
TxtFiles == SelectSeq(srv_in.files, LAMBDA f : Strstr(f.name, DOT_TXT))

\* The first entry that contains ".txt" and, in lower case, "hz<freq>".
FreqMatches ==
    SelectSeq(srv_in.files,
              LAMBDA f : /\ Strstr(f.name, DOT_TXT)
                         /\ Strstr(AsciiStrdown(f.name), HZ_LOWER \o srv_in.freq_str))

\* A branch that would jump to cleanup after its one send_file.
StraightToCleanup == "cleanup"

\* The freq and select_file branches end after their one send_file, and the
\* thread goes on to the END_OF_TRANSMISSION block.
AfterSingleFile == "eot"

\* if (strcmp(mode_selected, ...)): the three modes.
SrvMode ==
    /\ spc = "mode"
    /\ CASE srv_in.mode = "interval" ->
               IF srv_in.dir_ok
               THEN /\ file_list' = SortNames(TxtFiles)
                    /\ file_i' = 0
                    /\ spc' = "loop"
                    /\ UNCHANGED sf
               ELSE /\ Call(NoFile, NO_FILES_IN_FOLDER, "cleanup")
                    /\ UNCHANGED <<file_list, file_i>>
         [] srv_in.mode = "freq" ->
               /\ IF srv_in.dir_ok /\ FreqMatches # <<>>
                  THEN Call(FreqMatches[1], FreqMatches[1].name, AfterSingleFile)
                  ELSE Call(NoFile, NO_FILE_FOUND_ \o srv_in.freq_str \o HZ_SUFFIX,
                            AfterSingleFile)
               /\ UNCHANGED <<file_list, file_i>>
         [] OTHER ->
               /\ IF srv_in.selected # <<>> /\ srv_in.selected[1].access_ok
                  THEN Call(srv_in.selected[1], srv_in.selected[1].name, AfterSingleFile)
                  ELSE Call(NoFile, NO_FILE_SELECTED, AfterSingleFile)
               /\ UNCHANGED <<file_list, file_i>>
    /\ UNCHANGED <<srv_in, config_msg, wire, sends, faults,
                   terminate_server_thread, server_running, client_socket_fd>>
    /\ SrvOnly

\* for (i = 0; i < file_count; i++): the termination check, then access().
SrvLoop ==
    /\ spc = "loop"
    /\ IF file_i >= Len(file_list) \/ terminate_server_thread
       THEN /\ spc' = "eot"
            /\ UNCHANGED sf
       ELSE LET f == file_list[file_i + 1] IN
            IF f.access_ok
            THEN Call(f, f.name, "after_file")
            ELSE Call(NoFile, NO_FILE_FOUND_ \o f.name, "next")
    /\ UNCHANGED <<srv_in, config_msg, file_list, file_i, wire, sends, faults,
                   terminate_server_thread, server_running, client_socket_fd>>
    /\ SrvOnly

\* After send_file of an existing file: the termination check and g_usleep;
\* after the NO_FILE_FOUND frame: the next pass.
SrvNext ==
    /\ spc \in {"after_file", "next"}
    /\ IF spc = "after_file" /\ terminate_server_thread
       THEN /\ spc' = "eot"
            /\ UNCHANGED file_i
       ELSE /\ spc' = "loop"
            /\ file_i' = file_i + 1
    /\ UNCHANGED <<srv_in, config_msg, file_list, sf, wire, sends, faults,
                   terminate_server_thread, server_running, client_socket_fd>>
    /\ SrvOnly

\* if (!app_widgets->terminate_server_thread) send_file(conn_fd, "", "END_OF_TRANSMISSION")
SrvEot ==
    /\ spc = "eot"
    /\ IF ~terminate_server_thread
       THEN Call(NoFile, END_OF_TRANSMISSION, "cleanup")
       ELSE /\ spc' = "cleanup"
            /\ UNCHANGED sf
    /\ UNCHANGED <<srv_in, config_msg, file_list, file_i, wire, sends, faults,
                   terminate_server_thread, server_running, client_socket_fd>>
    /\ SrvOnly

\* cleanup: closesocket; server_running = false
SrvCleanup ==
    /\ spc = "cleanup"
    /\ spc' = "reset_id"
    /\ client_socket_fd' = "invalid"
    /\ server_running' = FALSE
    /\ UNCHANGED <<srv_in, config_msg, file_list, file_i, sf, wire, sends, faults,
                   terminate_server_thread>>
    /\ SrvOnly

\* All but the server thread's variables and the window's.
WindowOnly == UNCHANGED <<connVars, netVars, queueVars, flagVars, guiVars, cliVars,
                         plotVars, memVars, cbVars, fnVars, lockVars, firVars>>

\* app_widgets->server_thread_id = 0; return NULL
SrvResetId ==
    /\ spc = "reset_id"
    /\ spc' = "done"
    /\ server_thread_id' = 0
    /\ UNCHANGED <<srv_in, config_msg, file_list, file_i, sf, wire, sends, faults,
                   terminate_server_thread, server_running, client_socket_fd,
                   app_widgets, handler>>
    /\ WindowOnly

SfUnchanged == UNCHANGED <<srv_in, config_msg, file_list, file_i,
                           terminate_server_thread, server_running, client_socket_fd>>

\* send_file: the termination check on entry.
SfEnter ==
    /\ spc = "send_file" /\ sf.pc = "enter"
    /\ IF terminate_server_thread
       THEN Return
       ELSE /\ sf' = [sf EXCEPT !.pc = "name_len"]
            /\ UNCHANGED spc
    /\ UNCHANGED <<wire, sends, faults>>
    /\ SfUnchanged
    /\ SrvOnly

SfNameLen ==
    /\ spc = "send_file" /\ sf.pc = "name_len"
    /\ \E r \in SendOutcomes(FILENAME_LENGTH_BYTES) :
          /\ Send(FilenameLengthField(sf.basename), "name length", r, TRUE)
          /\ IF r < 0 THEN Return
             ELSE /\ sf' = [sf EXCEPT !.pc = "name"]
                  /\ UNCHANGED spc
    /\ SfUnchanged
    /\ SrvOnly

\* The name is sent, then fopen(filepath, "rb").
SfName ==
    /\ spc = "send_file" /\ sf.pc = "name"
    /\ \E r \in SendOutcomes(Len(sf.basename)) :
          /\ Send(sf.basename, "name", r, TRUE)
          /\ IF r < 0 THEN Return
             ELSE /\ sf' = [sf EXCEPT !.pc = IF sf.file.fopen_ok THEN "len" ELSE "len0"]
                  /\ UNCHANGED spc
    /\ SfUnchanged
    /\ SrvOnly

\* fopen failed: a content length of 0 is sent and the result is not looked at.
SfLenZero ==
    /\ spc = "send_file" /\ sf.pc = "len0"
    /\ \E r \in SendOutcomes(FILE_CONTENT_LENGTH_BYTES) :
          Send(ContentLengthField(0), "content length", r, FALSE)
    /\ Return
    /\ SfUnchanged
    /\ SrvOnly

SfLen ==
    /\ spc = "send_file" /\ sf.pc = "len"
    /\ \E r \in SendOutcomes(FILE_CONTENT_LENGTH_BYTES) :
          /\ Send(ContentLengthField(Len(sf.file.content)), "content length", r, TRUE)
          /\ IF r < 0 THEN Return
             ELSE /\ sf' = [sf EXCEPT !.pc = "chunk"]
                  /\ UNCHANGED spc
    /\ SfUnchanged
    /\ SrvOnly

\* while ((bytes_read = fread(buffer, 1, BUFFER_SIZE, file)) > 0)
SfChunk ==
    /\ spc = "send_file" /\ sf.pc = "chunk"
    /\ IF sf.rest = <<>> \/ terminate_server_thread
       THEN /\ Return
            /\ UNCHANGED <<wire, sends, faults>>
       ELSE \E r \in SendOutcomes(Min(BUFFER_SIZE, Len(sf.rest))) :
               /\ Send(Take(sf.rest, BUFFER_SIZE), "content", r, TRUE)
               /\ IF r < 0 THEN Return
                  ELSE /\ sf' = [sf EXCEPT !.rest = Drop(sf.rest, BUFFER_SIZE)]
                       /\ UNCHANGED spc
    /\ SfUnchanged
    /\ SrvOnly

\* pthread_join(app_widgets->server_thread_id, NULL) returns once the thread
\* has returned.
ThreadReturned == spc \in {"off", "done"}

\* if (app_widgets->server_running && app_widgets->server_thread_id != 0)
JoinOnDestroy == server_running /\ server_thread_id # 0

\* on_main_window_destroy while server_running and server_thread_id are set:
\* the flag is set, the sockets are shut down and closed, and the handler
\* waits in pthread_join.
OnMainWindowDestroy ==
    /\ handler = "idle" /\ app_widgets = "allocated"
    /\ JoinOnDestroy
    /\ terminate_server_thread' = TRUE
    /\ client_socket_fd' = IF client_socket_fd = "open" THEN "closed" ELSE client_socket_fd
    /\ handler' = "destroy_join"
    /\ UNCHANGED <<srv_in, spc, config_msg, file_list, file_i, sf, wire, sends, faults,
                   server_running, server_thread_id, app_widgets>>
    /\ WindowOnly

\* pthread_join has returned: server_thread_id = 0, g_free(app_widgets),
\* gtk_main_quit().
DestroyJoined ==
    /\ handler = "destroy_join"
    /\ ThreadReturned
    /\ server_thread_id' = 0
    /\ app_widgets' = "freed"
    /\ handler' = "gone"
    /\ UNCHANGED srvVars
    /\ WindowOnly

\* on_main_window_destroy when the test is false: no join; g_free(app_widgets),
\* gtk_main_quit().
DestroyFree ==
    /\ handler = "idle" /\ app_widgets = "allocated"
    /\ ~JoinOnDestroy
    /\ app_widgets' = "freed"
    /\ handler' = "gone"
    /\ UNCHANGED <<srvVars, server_thread_id>>
    /\ WindowOnly

ServerThread ==
    \/ SrvAccept \/ SrvConfig \/ SrvSendConfigLen \/ SrvSendConfigData
    \/ SrvMode \/ SrvLoop \/ SrvNext \/ SrvEot \/ SrvCleanup \/ SrvResetId
    \/ SfEnter \/ SfNameLen \/ SfName \/ SfLenZero \/ SfLen \/ SfChunk

-----------------------------------------------------------------------------
(* The inputs: what a producer can put on the connection.                   *)

Frame(name, content) == [name |-> name, content |-> content]

NameF == <<102>>                         \* "f"
NameF1 == <<102, 49, 46, 116, 120, 116>>    \* "f1.txt"
Suffix50hz == <<53, 48, 104, 122>>
\* A file name that only contains the marker of a server message.
NameMid == <<120>> \o NO_FILE_FOUND_
\* send_file(client_sock, "", "NO_FILE_FOUND:<name>")
NameNff == NO_FILE_FOUND_ \o Suffix50hz
\* A file name as long as the client's name buffer.
NameLong == [i \in 1..FILE_NAME_SIZE |-> 97]

\* "ADC:1000\nADC:1002\n"
PayloadA == <<65, 68, 67, 58, 49, 48, 48, 48, 10, 65, 68, 67, 58, 49, 48, 48, 50, 10>>
\* "xADC:5\nADC:-7\n\nADC:\nADC:12"
PayloadB ==
    <<120, 65, 68, 67, 58, 53, 10, 65, 68, 67, 58, 45, 55, 10, 10, 65, 68, 67, 58, 10, 65, 68, 67, 58, 49, 50>>
\* "ADC:7x\nADC:1.5\nADC:8\n": integers followed by other characters
PayloadD ==
    <<65, 68, 67, 58, 55, 120, 10, 65, 68, 67, 58, 49, 46, 53, 10, 65, 68, 67, 58, 56, 10>>
\* "INTERVAL:20\nMODE:interval\n"
ConfigA ==
    <<73, 78, 84, 69, 82, 86, 65, 76, 58, 50, 48, 10, 77, 79, 68, 69, 58, 105, 110, 116, 101, 114, 118, 97, 108, 10>>
\* "INTERVAL:100"
ConfigB == <<73, 78, 84, 69, 82, 86, 65, 76, 58, 49, 48, 48>>
\* "MODE:FREQ,FREQ_HZ:50"
ConfigC ==
    <<77, 79, 68, 69, 58, 70, 82, 69, 81, 44, 70, 82, 69, 81, 95, 72, 90, 58, 53, 48>>

\* "GAIN:2\nMODE:freq\n": a key no consumer knows, and no INTERVAL
ConfigD == <<71, 65, 73, 78, 58, 50, 10, 77, 79, 68, 69, 58, 102, 114, 101, 113, 10>>
\* "LOG_INTERVAL:5\nSUBMODE:raw\n": keys no consumer knows, and neither INTERVAL nor MODE
ConfigE ==
    <<76, 79, 71, 95, 73, 78, 84, 69, 82, 86, 65, 76, 58, 53, 10,
      83, 85, 66, 77, 79, 68, 69, 58, 114, 97, 119, 10>>

\* The two characters the format "\\n" of send_config puts out: a backslash
\* and the letter n.
BACKSLASH_N == <<92, 110>>

\* snprintf(config_str, sizeof(config_str), "INTERVAL:%d\\nMODE:%s\\n", interval_ms, mode)
send_config(interval, mode) ==
    KEY_INTERVAL \o FormatD(interval) \o BACKSLASH_N \o KEY_MODE \o mode \o BACKSLASH_N

\* handle_client: int interval_ms = 20; const char *mode = "interval"
HandleClientIntervalMs == 20
HandleClientMode == <<105, 110, 116, 101, 114, 118, 97, 108>>

\* What 11-07-2025/server.c sends to every client.
ConfigS == send_config(HandleClientIntervalMs, HandleClientMode)

Configs == {ConfigA, ConfigB, ConfigC, ConfigD, ConfigE, ConfigS, <<>>}

DataFrames ==
    {Frame(NameF, <<>>), Frame(NameF1, PayloadA), Frame(NameF, PayloadB),
     Frame(NameMid, PayloadA), Frame(NameLong, PayloadA), Frame(NameF, PayloadD)}

MessageFrames ==
    {Frame(END_OF_TRANSMISSION, <<>>), Frame(NameNff, <<>>),
     Frame(NO_FILE_SELECTED, <<>>), Frame(NO_FILES_IN_FOLDER, <<>>),
     Frame(FILE_NOT_FOUND, <<>>)}

FrameKinds == DataFrames \cup MessageFrames

Producers == {"send_file", "send_file_by_path"}

WholeLen(config, frames, producer) ==
    Len(SendConfigBytes(config) \o FramesBytes(frames, producer))

\* A session the producer completes before it closes the connection.
Whole(config, frames, producer) ==
    [config |-> config, frames |-> frames, producer |-> producer,
     cut |-> WholeLen(config, frames, producer), open |-> FALSE]

\* Bound: the number of frames of a session of SessionsNet.
MaxFrames == 2

SeqsUpTo(S, n) == UNION {[1..k -> S] : k \in 0..n}

\* Sessions for the network thread alone: short ones with every
\* configuration and producer, longer ones, and broken connections.
SessionsNet ==
    {Whole(c, fs, p) : c \in Configs, fs \in SeqsUpTo(FrameKinds, 1), p \in Producers}
    \cup {Whole(ConfigA, fs, "send_file") :
             fs \in SeqsUpTo(FrameKinds, MaxFrames) \ SeqsUpTo(FrameKinds, 1)}
    \cup {[Whole(ConfigB, fs, "send_file") EXCEPT !.cut = n] :
             fs \in {<<Frame(NameF1, PayloadA)>>, <<Frame(NO_FILE_SELECTED, <<>>)>>},
             n \in 0..WholeLen(ConfigB, <<Frame(NO_FILE_SELECTED, <<>>)>>, "send_file")}

\* Bound: a session of SessionsClient has up to QUEUE_SIZE + ExtraFrames files.
ExtraFrames == 1

\* "ADC:<k mod 10>" in the file named by the k-th letter.
BatchFrame(k) == Frame(<<96 + k>>, KEY_ADC \o <<48 + (k % 10)>>)

Batches(n) == [k \in 1..n |-> BatchFrame(k)]

\* Sessions for the whole client: files and END_OF_TRANSMISSION, files and a
\* server message, and a connection that breaks inside a file.
SessionsClient ==
    {Whole(ConfigB, Batches(n) \o <<Frame(END_OF_TRANSMISSION, <<>>)>>, "send_file") :
        n \in {1, QUEUE_SIZE + ExtraFrames}}
    \cup {Whole(ConfigB, Batches(1) \o <<Frame(NO_FILE_SELECTED, <<>>)>>, "send_file")}
    \cup {[Whole(ConfigB, Batches(2), "send_file") EXCEPT !.cut = @ - 2]}

\* The folder and the choices made in the server's window.
DirFile(name, content, access_ok, fopen_ok) ==
    [name |-> name, content |-> content, access_ok |-> access_ok, fopen_ok |-> fopen_ok]

NameA == <<97, 46, 116, 120, 116>>      \* "a.txt"
NameB == <<98, 46, 116, 120, 116>>      \* "b.txt"
NameC == <<99, 46, 116, 120, 116>>      \* "c.txt"
NameHz == <<72, 122, 53, 48, 46, 116, 120, 116>>    \* "Hz50.txt"
Freq50 == <<53, 48>>                  \* "50"
PayloadC == <<65, 68, 67, 58, 55, 10>>    \* "ADC:7\n"

FileA == DirFile(NameA, PayloadC, TRUE, TRUE)
\* removed from the folder after readdir
FileB == DirFile(NameB, PayloadC, FALSE, FALSE)
\* present, but fopen fails
FileC == DirFile(NameC, PayloadC, TRUE, FALSE)
\* not a .txt file
FileN == DirFile(NameF, PayloadC, TRUE, TRUE)
FileHz == DirFile(NameHz, <<>>, TRUE, TRUE)

\* Bound: the number of entries of the data folder in interval mode.
MaxFiles == 2

ServerInput(mode, parsed_interval, dir_ok, files, selected) ==
    [mode |-> mode, parsed_interval |-> parsed_interval, freq_str |-> Freq50,
     dir_ok |-> dir_ok, files |-> files, selected |-> selected]

Injective(f) == \A i, j \in DOMAIN f : f[i] = f[j] => i = j

ServerInputs ==
    {ServerInput("interval", iv, ok, fs, <<>>) :
        iv \in {0, 20}, ok \in BOOLEAN,
        fs \in {l \in SeqsUpTo({FileA, FileB, FileC, FileN}, MaxFiles) : Injective(l)}}
    \cup {ServerInput("freq", 0, ok, fs, <<>>) :
             ok \in BOOLEAN, fs \in {<<>>, <<FileA, FileHz>>}}
    \cup {ServerInput("select_file", 0, TRUE, <<>>, sel) :
             sel \in {<<>>, <<FileA>>, <<FileB>>, <<FileC>>}}

-----------------------------------------------------------------------------
(* handle_client of 11-07-2025/server.c:143: the configuration, the files   *)
(* of the data folder as readdir returns them, and the closing message.     *)
(* Every send() takes its whole buffer; the entries are regular files.      *)

\* The folder as readdir lists it: in any order.
HandleClientInputs ==
    {ServerInput("interval", HandleClientIntervalMs, ok, fs, <<>>) :
        ok \in BOOLEAN,
        fs \in {l \in SeqsUpTo({FileA, FileB, FileC, FileN, FileHz}, MaxFiles) :
                   Injective(l)}}

\* What send_file_by_path writes for a path: the frame of the file, or the
\* control message FILE_NOT_FOUND when fopen fails.
send_file_by_path(f) ==
    IF f.fopen_ok
    THEN SendFileByPathBytes(f.name, f.content)
    ELSE SendFileByPathBytes(FILE_NOT_FOUND, <<>>)

\* send_control_message(client_sock, message)
send_control_message(message) == SendFileByPathBytes(message, <<>>)

\* The bytes go out in full.
Sent(bytes, field) ==
    /\ wire' = wire \o bytes
    /\ sends' = Append(sends, [field |-> field, len |-> Len(bytes), ret |-> Len(bytes),
                               failed |-> FALSE])

HcUnchanged == UNCHANGED <<srv_in, sf, faults, terminate_server_thread, server_running,
                           client_socket_fd>>

\* send_config(client_sock, interval_ms, mode)
HcSendConfig ==
    /\ spc = "handle_client"
    /\ config_msg' = send_config(HandleClientIntervalMs, HandleClientMode)
    /\ Sent(SendConfigBytes(config_msg'), "config")
    /\ spc' = "opendir"
    /\ UNCHANGED <<file_list, file_i>>
    /\ HcUnchanged
    /\ SrvOnly

\* d = opendir(DATA_FOLDER); on failure NO_FILES_IN_FOLDER is sent and
\* handle_client returns.
HcOpendir ==
    /\ spc = "opendir"
    /\ IF srv_in.dir_ok
       THEN /\ spc' = "readdir"
            /\ UNCHANGED <<wire, sends>>
       ELSE /\ Sent(send_control_message(NO_FILES_IN_FOLDER), "control message")
            /\ spc' = "returned"
    /\ UNCHANGED <<config_msg, file_list, file_i>>
    /\ HcUnchanged
    /\ SrvOnly

\* One pass of while ((dir = readdir(d)) != NULL): an entry whose name
\* contains ".txt" is counted and sent; after the last entry closedir.
\* file_list keeps the entries sent; file_count is its length.
HcReaddir ==
    /\ spc = "readdir"
    /\ IF file_i < Len(srv_in.files)
       THEN LET dir == srv_in.files[file_i + 1] IN
            /\ file_i' = file_i + 1
            /\ IF Strstr(dir.name, DOT_TXT)
               THEN /\ file_list' = Append(file_list, dir)
                    /\ Sent(send_file_by_path(dir), "file")
               ELSE UNCHANGED <<file_list, wire, sends>>
            /\ UNCHANGED spc
       ELSE /\ spc' = "closedir"
            /\ UNCHANGED <<file_list, file_i, wire, sends>>
    /\ UNCHANGED config_msg
    /\ HcUnchanged
    /\ SrvOnly

\* if (file_count == 0) NO_FILES_IN_FOLDER else END_OF_TRANSMISSION
HcEnd ==
    /\ spc = "closedir"
    /\ Sent(send_control_message(IF Len(file_list) = 0 THEN NO_FILES_IN_FOLDER
                                 ELSE END_OF_TRANSMISSION), "control message")
    /\ spc' = "returned"
    /\ UNCHANGED <<config_msg, file_list, file_i>>
    /\ HcUnchanged
    /\ SrvOnly

HandleClient == HcSendConfig \/ HcOpendir \/ HcReaddir \/ HcEnd

-----------------------------------------------------------------------------
(* Specifications.                                                          *)

NoSession == [config |-> <<>>, frames |-> <<>>, producer |-> "", cut |-> 0,
              open |-> FALSE]

\* The GUI client: main() has attached the idle source and created the
\* network thread; gtk_main() is running.
GuiClientInit(sessions) ==
    /\ session \in sessions
    /\ sock_in = SessionBytes(session)
    /\ npc = "created"
    /\ plotting_active = 1
    /\ gtk_main = "running"
    /\ sources = {1}
    /\ next_source_id = 2

\* The GUI client is not run.
GuiClientOff ==
    /\ sock_in = <<>>
    /\ npc = "off"
    /\ plotting_active = 0
    /\ gtk_main = "off"
    /\ sources = {}
    /\ next_source_id = 1

\* The globals of the GUI client as they are initialised.
GuiClientGlobals ==
    /\ rx_len = 0 /\ rx_buf = <<>> /\ rx_ret = <<>>
    /\ config_len = 0 /\ interval_ms = 0
    /\ filename_length = 0 /\ file_name = <<>>
    /\ file_content_length = 0 /\ raw_adc_values = <<>>
    /\ network_thread_running = 0
    /\ net_end = "" /\ rx_log = <<>> /\ offered = <<>>
    /\ data_queue = [i \in 0..(QUEUE_SIZE - 1) |-> NULL]
    /\ queue_head = 0 /\ queue_tail = 0 /\ queue_count = 0
    /\ queue_lock = "free"
    /\ net_count = 0 /\ gui_count = 0
    /\ data_processing_source_id = 0
    /\ gpc = "idle" /\ cur_source = 0
    /\ g_file_state = ZeroFileState
    /\ dequeued = <<>>
    /\ current_raw_buffer = init_circular_buffer(PLOT_BUFFER_SIZE)
    /\ current_filtered_buffer = init_circular_buffer(PLOT_BUFFER_SIZE)
    /\ dsp_raw_adc_buffer = init_circular_buffer(DSP_BUFFER_SIZE)
    /\ written = <<>>
    /\ mem = NoArrays
    /\ plot_lock = 0

\* No text is given to process_data.
NoContent == [unit |-> <<>>, repeat |-> 0]

\* process_data is not called.
FirOff == file_content = NoContent /\ raw_count = 0 /\ blockSize = <<>>

CliGlobals ==
    /\ cli_len = 0 /\ cli_buf = <<>> /\ cli_ret = <<>>
    /\ cli_interval_ms = 0 /\ cli_mode = <<>>
    /\ filename = <<>> /\ file_content_len = 0
    /\ cli_end = "" /\ cli_log = <<>>

\* The command-line client has entered main().
CliInit == cli_pc = "start" /\ cli_sock = SessionBytes(session) /\ CliGlobals /\ FirOff

CliOff == cli_pc = "off" /\ cli_sock = <<>> /\ CliGlobals /\ FirOff

ServerGlobals ==
    /\ config_msg = <<>> /\ file_list = <<>> /\ file_i = 0
    /\ sf = NoCall
    /\ wire = <<>> /\ sends = <<>> /\ faults = 0
    /\ terminate_server_thread = FALSE
    /\ client_socket_fd = "invalid"
    /\ app_widgets = "allocated"
    /\ handler = "idle"

\* start_sending_clicked has created the server thread.
ServerInit ==
    /\ srv_in \in ServerInputs
    /\ spc = "created"
    /\ server_running = TRUE
    /\ server_thread_id = 1
    /\ ServerGlobals

ServerOff ==
    /\ srv_in = ServerInput("", 0, FALSE, <<>>, <<>>)
    /\ spc = "off"
    /\ server_running = FALSE
    /\ server_thread_id = 0
    /\ ServerGlobals

\* No circular buffer is exercised on its own.
CbOff == one_cb = NULL /\ pushed = <<>> /\ snap = NULL

\* No content length is exercised on its own.
FnOff == length_host = <<>> /\ length_net = <<>> /\ length_back = <<>>

\* A session received by one of the consumers: the network thread of the GUI
\* client (of whose GUI thread only the closing of the window is taken, which
\* is all that the thread's decoding reads), or the command-line client.
InitNet ==
    \/ GuiClientInit(SessionsNet) /\ GuiClientGlobals /\ CliOff /\ ServerOff /\ CbOff /\ FnOff
    \/ /\ session \in SessionsNet
       /\ GuiClientOff /\ GuiClientGlobals /\ CliInit /\ ServerOff /\ CbOff /\ FnOff

NextNet == NetThread \/ OnWindowDestroy \/ MainJoin \/ CliClient

SpecNet == InitNet /\ [][NextNet]_vars

\* The server thread and the closing of the server's window.
InitServer ==
    /\ session = NoSession
    /\ GuiClientOff /\ GuiClientGlobals /\ CliOff /\ ServerInit /\ CbOff /\ FnOff

NextServer == ServerThread \/ OnMainWindowDestroy

SpecServer == InitServer /\ [][NextServer]_vars

\* pthread_create: the thread begins send_files_thread_func with the
\* selections of the window as they are.
ThreadCreated ==
    /\ srv_in' \in ServerInputs
    /\ server_thread_id' = 1
    /\ server_running' = TRUE
    /\ terminate_server_thread' = FALSE
    /\ client_socket_fd' = "invalid"
    /\ spc' = "created"
    /\ config_msg' = <<>> /\ file_list' = <<>> /\ file_i' = 0
    /\ sf' = NoCall
    /\ wire' = <<>> /\ sends' = <<>> /\ faults' = 0
    /\ handler' = "idle"
    /\ UNCHANGED app_widgets

\* start_sending_clicked while no session runs: with server_thread_id set
\* the handler waits in pthread_join, else it goes on to start the thread.
StartSendingClicked ==
    /\ handler = "idle" /\ app_widgets = "allocated"
    /\ ~server_running
    /\ IF server_thread_id # 0
       THEN /\ handler' = "start_join"
            /\ UNCHANGED <<srvVars, server_thread_id, app_widgets>>
       ELSE ThreadCreated
    /\ WindowOnly

\* pthread_join has returned in start_sending_clicked.
StartJoined ==
    /\ handler = "start_join"
    /\ ThreadReturned
    /\ ThreadCreated
    /\ WindowOnly

\* The window of the GUI server before the first click.
InitWindow ==
    /\ session = NoSession
    /\ GuiClientOff /\ GuiClientGlobals /\ CliOff /\ ServerOff /\ CbOff /\ FnOff

\* The server thread and the two handlers of the window.
NextWindow ==
    \/ ServerThread
    \/ StartSendingClicked \/ StartJoined
    \/ OnMainWindowDestroy \/ DestroyJoined \/ DestroyFree

SpecWindow == InitWindow /\ [][NextWindow]_vars

\* 11-07-2025/server.c has accepted a client and calls handle_client.
InitHandle ==
    /\ session = NoSession
    /\ GuiClientOff /\ GuiClientGlobals /\ CliOff /\ CbOff /\ FnOff
    /\ srv_in \in HandleClientInputs
    /\ spc = "handle_client"
    /\ server_running = TRUE
    /\ config_msg = <<>> /\ file_list = <<>> /\ file_i = 0
    /\ sf = NoCall
    /\ wire = <<>> /\ sends = <<>> /\ faults = 0
    /\ terminate_server_thread = FALSE
    /\ client_socket_fd = "open"
    /\ server_thread_id = 0 /\ app_widgets = "allocated" /\ handler = "idle"

SpecHandle == InitHandle /\ [][HandleClient]_vars

\* The two threads of the GUI client and the queue between them.
InitClient ==
    GuiClientInit(SessionsClient) /\ GuiClientGlobals /\ CliOff /\ ServerOff /\ CbOff /\ FnOff

NextClient == NetThread \/ GuiThread

SpecClient == InitClient /\ [][NextClient]_vars

\* "ADC:7\n", n times: a file of n samples.
SampleLine == KEY_ADC \o <<55, LF>>

LongPayload(n) ==
    [i \in 1..(n * Len(SampleLine)) |-> SampleLine[((i - 1) % Len(SampleLine)) + 1]]

\* Bound: the samples of the long file reach past FIR_NUM_TAPS by this many.
ExtraSamples == 1

\* Sessions with a file long enough for the filter: the short sessions of
\* the whole client, and one file of FIR_NUM_TAPS + ExtraSamples samples.
SessionsDsp ==
    {Whole(ConfigB, <<Frame(NameF1, LongPayload(FIR_NUM_TAPS + ExtraSamples)),
                      Frame(END_OF_TRANSMISSION, <<>>)>>, "send_file"),
     Whole(ConfigB, Batches(1) \o <<Frame(END_OF_TRANSMISSION, <<>>)>>, "send_file"),
     Whole(ConfigB, Batches(1) \o <<Frame(NO_FILE_SELECTED, <<>>)>>, "send_file"),
     [Whole(ConfigB, Batches(2), "send_file") EXCEPT !.cut = @ - 2]}

\* The two threads of the GUI client draining such a file.
InitDsp ==
    GuiClientInit(SessionsDsp) /\ GuiClientGlobals /\ CliOff /\ ServerOff /\ CbOff /\ FnOff

SpecDsp == InitDsp /\ [][NextClient]_vars


\* Bound: the files of a session of SessionsLive.
LiveFiles == 2

\* Short sessions of the whole client.
SessionsLive ==
    {Whole(ConfigB, Batches(n) \o <<Frame(END_OF_TRANSMISSION, <<>>)>>, "send_file") :
        n \in 1..LiveFiles}
    \cup {Whole(ConfigB, Batches(1) \o <<Frame(NO_FILE_SELECTED, <<>>)>>, "send_file")}
    \cup {[Whole(ConfigB, Batches(2), "send_file") EXCEPT !.cut = @ - 2]}

InitLive ==
    GuiClientInit(SessionsLive) /\ GuiClientGlobals /\ CliOff /\ ServerOff /\ CbOff /\ FnOff

\* The sessions of SessionsLive, and the same with a server that sends as
\* much and then keeps the connection open.
SessionsClose == SessionsLive \cup {[s EXCEPT !.open = TRUE] : s \in SessionsLive}

InitClose ==
    GuiClientInit(SessionsClose) /\ GuiClientGlobals /\ CliOff /\ ServerOff /\ CbOff /\ FnOff

\* What the GUI thread does without the user: the main loop dispatches the
\* attached sources of the callback, and main() goes on after gtk_main().
GuiRuns ==
    \/ GuiSample \/ GuiFinishFile \/ GuiPoll \/ GuiLock
    \/ GuiDequeueLoad \/ GuiDequeueCount \/ GuiCheckRunning \/ GuiCheckCount
    \/ MainJoin

\* Both threads of the GUI client are scheduled as long as they can run; the
\* user may close the window or not.
SpecLive ==
    InitLive /\ [][NextClient]_vars /\ WF_vars(NetThread) /\ WF_vars(GuiRuns)

\* The same scheduling with servers that may keep the connection open.
SpecClose ==
    InitClose /\ [][NextClient]_vars /\ WF_vars(NetThread) /\ WF_vars(GuiRuns)

\* A batch of n samples base + 1 .. base + n as the network thread queues it.
TickItem(name, n, base) ==
    [raw_adc_values |-> [i \in 1..n |-> base + i],
     num_samples |-> n,
     interval_ms |-> 100,
     file_name |-> name]

\* A file with more samples than the plot buffers have slots, then a short one.
TickBatches ==
    <<TickItem(NameA, PLOT_BUFFER_SIZE + ExtraSamples, 1000), TickItem(NameB, 2, 0)>>

\* The processing side with the batches of a session waiting: the network
\* thread has queued them, received END_OF_TRANSMISSION and returned before
\* the main loop dispatched the idle source.  The record of the connection
\* is left empty.
InitTick ==
    /\ session = NoSession /\ sock_in = <<>>
    /\ npc = "done"
    /\ plotting_active = 1 /\ network_thread_running = 0
    /\ gtk_main = "running" /\ sources = {1} /\ next_source_id = 2
    /\ rx_len = Len(END_OF_TRANSMISSION) /\ rx_buf = END_OF_TRANSMISSION
    /\ rx_ret = <<Len(END_OF_TRANSMISSION)>>
    /\ config_len = Len(ConfigB) /\ interval_ms = 100
    /\ filename_length = Len(END_OF_TRANSMISSION) /\ file_name = END_OF_TRANSMISSION
    /\ file_content_length = 0
    /\ raw_adc_values = TickBatches[Len(TickBatches)].raw_adc_values
    /\ net_end = "end of transmission" /\ rx_log = <<>>
    /\ offered = [k \in 1..Len(TickBatches) |-> [item |-> TickBatches[k], queued |-> TRUE]]
    /\ data_queue = [i \in 0..(QUEUE_SIZE - 1) |->
                        IF i < Len(TickBatches) THEN TickBatches[i + 1] ELSE NULL]
    /\ queue_head = 0 /\ queue_tail = Len(TickBatches) /\ queue_count = Len(TickBatches)
    /\ queue_lock = "free"
    /\ net_count = Len(TickBatches) - 1 /\ gui_count = 0
    /\ data_processing_source_id = 0
    /\ gpc = "idle" /\ cur_source = 0
    /\ g_file_state = ZeroFileState
    /\ dequeued = <<>>
    /\ current_raw_buffer = init_circular_buffer(PLOT_BUFFER_SIZE)
    /\ current_filtered_buffer = init_circular_buffer(PLOT_BUFFER_SIZE)
    /\ dsp_raw_adc_buffer = init_circular_buffer(DSP_BUFFER_SIZE)
    /\ written = <<>>
    /\ mem = [arrays |-> [k \in 1..Len(TickBatches) |-> [frees |-> 0, stale |-> 0]],
              in_slot |-> [i \in 0..(QUEUE_SIZE - 1) |->
                              IF i < Len(TickBatches) THEN i + 1 ELSE 0],
              data_item |-> 0,
              in_state |-> 0]
    /\ plot_lock = 0
    /\ CliOff /\ ServerOff /\ CbOff /\ FnOff

SpecTick == InitTick /\ [][GuiThread]_vars

\* The two threads with the allocations of the per-sample path able to fail,
\* on the short sessions and on the batch that is long enough for the DSP
\* chain to run.
InitLock == InitDsp \/ InitTick

NextLock == NextClient \/ GuiReallocFails \/ GuiSnapshotFails

SpecLock == InitLock /\ [][NextLock]_vars

\* One circular buffer of a small capacity, appended to, read and emptied in
\* any order.
MaxCapacity == 3
MaxPushes == 6
CbValues == {11, 12}

CbOnly == UNCHANGED <<connVars, netVars, queueVars, flagVars, guiVars, cliVars, srvVars,
                      plotVars, memVars, fnVars, lockVars, lifeVars, firVars>>

\* append_circular_buffer(&cb, value)
CbAppend ==
    /\ Len(pushed) < MaxPushes
    /\ \E value \in CbValues :
          /\ one_cb' = append_circular_buffer(one_cb, value)
          /\ pushed' = Append(pushed, value)
    /\ snap' = NULL
    /\ CbOnly

\* get_circular_buffer_snapshot(&cb, &actual_len)
CbSnapshot ==
    /\ snap' = get_circular_buffer_snapshot(one_cb)
    /\ UNCHANGED <<one_cb, pushed>>
    /\ CbOnly

\* cb.head = cb.tail = cb.count = 0
CbClear ==
    /\ one_cb' = clear_circular_buffer(one_cb)
    /\ pushed' = <<>>
    /\ snap' = NULL
    /\ CbOnly

InitBuffer ==
    /\ session = NoSession
    /\ GuiClientOff /\ GuiClientGlobals /\ CliOff /\ ServerOff
    /\ \E max_size \in 1..MaxCapacity : one_cb = init_circular_buffer(max_size)
    /\ pushed = <<>>
    /\ snap = NULL
    /\ FnOff

NextBuffer == CbAppend \/ CbSnapshot \/ CbClear

SpecBuffer == InitBuffer /\ [][NextBuffer]_vars

\* The bytes a content length is made of in the check: none set, the lowest
\* bit, the highest bit, all bits.
LengthBytes == {0, 1, 128, 255}

\* Bound: the positions of the 8 bytes, counted from the most significant,
\* that take every value of LengthBytes; the others are 0 or 255.
FreeBytes == 3

\* uint64_t values: the 8 bytes, most significant first.
Lengths ==
    {w \in [1..FILE_CONTENT_LENGTH_BYTES -> LengthBytes] :
        \A i \in (FreeBytes + 1)..FILE_CONTENT_LENGTH_BYTES : w[i] \in {0, 255}}

FnOnly == UNCHANGED <<connVars, netVars, queueVars, flagVars, guiVars, cliVars, srvVars,
                      plotVars, memVars, cbVars, lockVars, lifeVars, firVars>>

\* send(sockfd, &file_content_length_net, 8, 0) of send_file, or
\* send(client_sock, &net_file_content_len, 8, 0) of send_file_by_path.
LenSend ==
    /\ length_net = <<>>
    /\ \E producer \in Producers :
          length_net' = IF producer = "send_file"
                        THEN MemoryImage(htonll_custom(length_host))
                        ELSE MemoryImage(htobe64_custom(length_host))
    /\ UNCHANGED <<length_host, length_back>>
    /\ FnOnly

\* recvall / recv_all of the 8 bytes into a uint64_t, then ntohll_custom
\* (GUI client) or be64toh (command-line clients).
LenRecv ==
    /\ length_net # <<>> /\ length_back = <<>>
    /\ \E consumer \in {"ntohll_custom", "be64toh"} :
          length_back' = IF consumer = "ntohll_custom"
                         THEN ntohll_custom(FromMemory(length_net))
                         ELSE be64toh_custom(FromMemory(length_net))
    /\ UNCHANGED <<length_host, length_net>>
    /\ FnOnly

InitLength ==
    /\ session = NoSession
    /\ GuiClientOff /\ GuiClientGlobals /\ CliOff /\ ServerOff /\ CbOff
    /\ length_host \in Lengths
    /\ length_net = <<>> /\ length_back = <<>>

SpecLength == InitLength /\ [][LenSend \/ LenRecv]_vars

\* float32_t firState_f32[FIR_NUM_TAPS + BUFFER_SIZE - 1]
firState_f32 == FIR_NUM_TAPS + BUFFER_SIZE - 1

\* Bound: the lines of the longest content reach past BUFFER_SIZE by this many.
ExtraLines == 1

\* The texts of the contents: what is repeated ends with a line feed, so that
\* the lines of the whole are the lines of its parts.
ContentUnits ==
    {KEY_ADC \o <<55, LF>>,                      \* "ADC:7\n"
     KEY_ADC \o <<55, LF, 120, LF>>,             \* "ADC:7\nx\n"
     <<120, LF>>}                                \* "x\n"

\* File contents main() of c2.c hands to process_data: it receives any
\* file_content_len bytes that malloc serves.
FileContents ==
    {[unit |-> u, repeat |-> n] :
        u \in ContentUnits, n \in {1, BUFFER_SIZE, BUFFER_SIZE + ExtraLines}}

FirOnly == UNCHANGED <<connVars, netVars, queueVars, flagVars, guiVars, cliVars, srvVars,
                       plotVars, memVars, cbVars, fnVars, lockVars, lifeVars>>

\* The strtok loop of process_data over the next lines of the text: a line
\* with "ADC:" that sscanf("ADC:%ld") converts counts in raw_count.
PdLines ==
    /\ blockSize = <<>>
    /\ file_content.repeat > 0
    /\ raw_count' = raw_count + Len(ParseAdc(file_content.unit))
    /\ file_content' = [file_content EXCEPT !.repeat = @ - 1]
    /\ UNCHANGED blockSize
    /\ FirOnly

\* After the loop, with raw_count > 0:
\* arm_fir_init_f32(&S_fir, FIR_NUM_TAPS, firCoeffs_f32, firState_f32, raw_count)
PdFirInit ==
    /\ blockSize = <<>>
    /\ file_content # NoContent /\ file_content.repeat = 0
    /\ raw_count > 0
    /\ blockSize' = <<raw_count>>
    /\ UNCHANGED <<file_content, raw_count>>
    /\ FirOnly

InitFir ==
    /\ session = NoSession
    /\ GuiClientOff /\ GuiClientGlobals /\ ServerOff /\ CbOff /\ FnOff
    /\ cli_pc = "off" /\ cli_sock = <<>> /\ CliGlobals
    /\ file_content \in FileContents
    /\ raw_count = 0 /\ blockSize = <<>>

SpecFir == InitFir /\ [][PdLines \/ PdFirInit]_vars

-----------------------------------------------------------------------------
(* The protocol's notions the properties are stated with.                   *)

\* A name that ends the frame loop: one of the three exact names, or one
\* that begins with "NO_FILE_FOUND:".
SentinelName(name) ==
    \/ name \in {END_OF_TRANSMISSION, NO_FILE_SELECTED, NO_FILES_IN_FOLDER}
    \/ IsPrefix(NO_FILE_FOUND_, name)

FrameLen(f) ==
    FILENAME_LENGTH_BYTES + Len(f.name) + FILE_CONTENT_LENGTH_BYTES + Len(f.content)

\* The offset of the name-length field of the k-th frame of the session.
RECURSIVE FrameStart(_)
FrameStart(k) ==
    IF k = 1 THEN CONFIG_LENGTH_BYTES + Len(session.config)
    ELSE FrameStart(k - 1) + FrameLen(session.frames[k - 1])

\* The values of the ADC lines of the payloads.
ExpectedAdc(content) ==
    CASE content = PayloadA -> <<1000, 1002>>
      [] content = PayloadB -> <<-7, 12>>
      [] OTHER -> <<>>

ExpectedInterval(config) ==
    CASE config = ConfigA -> 20
      [] config = ConfigB -> 100

\* The phases of a frame in which a consumer has taken its name for a
\* message that ends the loop.
StopPhases == {"stop", "message", "message read"}

-----------------------------------------------------------------------------
(* C1..C10.                                                                 *)

\* C1: frame header round-trip.  For every name and payload the producer
\* writes as a frame, the GUI client's decode of that frame recovers exactly
\* the same name and exactly the same content length.
C1_RoundTrip ==
    \A k \in 1..Len(rx_log) :
       k <= Len(session.frames) =>
          LET e == rx_log[k]
              f == session.frames[k] IN
          /\ e.phase # "name" => e.name = f.name
          /\ e.phase \in {"content", "done"} => e.content_length = Len(f.content)

\* The network thread has gone past the k-th frame it began.
LeftFrame(k) ==
    \/ k < Len(rx_log)
    \/ npc \in {"loop", "enq_lock", "enq_store", "enq_count", "close", "done"}

\* The number of bytes it had consumed when it left that frame.
ConsumedAfter(k) == IF k < Len(rx_log) THEN rx_log[k + 1].at ELSE consumed

\* C2: framing stays in sync.  The network thread begins every frame at that
\* frame's name-length field, and for every frame with a non-sentinel name
\* that the stream delivers whole it consumes exactly
\* 4 + name_length + 8 + content_length bytes.
C2_FramingInSync ==
    \A k \in 1..Len(rx_log) :
       k <= Len(session.frames) =>
          /\ rx_log[k].at = FrameStart(k)
          /\ (/\ ~SentinelName(session.frames[k].name)
              /\ FrameStart(k + 1) <= session.cut
              /\ LeftFrame(k))
             => ConsumedAfter(k) = FrameStart(k + 1)

\* C3: chunked-delivery invariance.  Once the stream has supplied the n bytes
\* a recvall / recv_all call asked for, in whatever pieces, the call reports
\* success, the buffer holds exactly those n bytes in order, and exactly n
\* bytes of the stream are consumed.
C3_ChunkedDelivery ==
    /\ (npc \in ReadStates /\ total_received = rx_len) =>
          /\ rx_ret # <<>> /\ rx_ret[1] # -1
          /\ rx_buf = SubSeq(SessionBytes(session), consumed - rx_len + 1, consumed)
    /\ (cli_pc \in CliReadStates /\ cli_total_received = cli_len) =>
          /\ cli_ret # <<>> /\ ~RecvAllFailed
          /\ cli_buf = SubSeq(SessionBytes(session), cli_consumed - cli_len + 1,
                              cli_consumed)

\* The stream has ended before the bytes asked for have all arrived.
NetStarved == npc \in ReadStates /\ total_received < rx_len /\ sock_in = <<>>

CliStarved == cli_pc \in CliReadStates /\ cli_total_received < cli_len /\ cli_sock = <<>>

\* C4: no partial result.  recvall / recv_all never return success with
\* fewer bytes than asked for, and once the stream has ended inside a field
\* the caller decodes nothing more: it only leaves the loop or the program.
C4_NoPartialResult ==
    /\ [](rx_ret # <<>> /\ rx_ret[1] # -1 => total_received = rx_len)
    /\ [](cli_ret # <<>> /\ ~RecvAllFailed => cli_total_received = cli_len)
    /\ [][NetStarved =>
             /\ npc' \in {npc, "close", "done"}
             /\ UNCHANGED <<config_len, interval_ms, filename_length, file_name,
                            file_content_length, raw_adc_values, rx_log, offered,
                            data_queue>>]_vars
    /\ [][CliStarved =>
             /\ cli_pc' \in {cli_pc, "exit", "closed"}
             /\ UNCHANGED <<cli_interval_ms, filename, file_content_len, cli_log>>]_vars

\* The connection broke after a part of a field had arrived, for either consumer.
C4_Witness ==
    \/ net_end = "disconnected" /\ rx_buf # <<>> /\ total_received < rx_len
    \/ cli_end = "disconnected" /\ cli_buf # <<>> /\ cli_total_received < cli_len

\* C5: writeAll on the producer.  Every send() either takes every byte of the
\* field it is given or is treated as a failure by the producer.
C5_WriteAll ==
    \A i \in 1..Len(sends) : sends[i].ret = sends[i].len \/ sends[i].failed

\* C6: sentinel recognition is exact.  A consumer takes a received name for a
\* message that ends its loop if and only if the name is END_OF_TRANSMISSION,
\* NO_FILE_SELECTED or NO_FILES_IN_FOLDER or begins with NO_FILE_FOUND:.
C6_SentinelExact ==
    /\ \A k \in 1..Len(rx_log) :
          rx_log[k].phase # "name" =>
             (rx_log[k].phase \in StopPhases <=> SentinelName(rx_log[k].name))
    /\ \A k \in 1..Len(cli_log) :
          cli_log[k].phase \in {"message read", "content", "done"} =>
             (cli_log[k].phase \in StopPhases <=> SentinelName(cli_log[k].name))

\* C7: the content-length field is always consumed.  When a consumer has left
\* its frame loop, every frame whose name it read had its 8-byte content
\* length read too, unless the connection broke before.
C7_LengthConsumed ==
    /\ npc \in {"close", "done"} =>
          \A k \in 1..Len(rx_log) :
             \/ rx_log[k].phase \in {"message read", "content", "done"}
             \/ k = Len(rx_log) /\ net_end = "disconnected"
    /\ cli_pc = "closed" =>
          \A k \in 1..Len(cli_log) :
             \/ cli_log[k].phase \in {"message read", "content", "done"}
             \/ k = Len(cli_log) /\ cli_end \in {"disconnected", "malloc failed"}

\* A configuration with INTERVAL:<i>, data frames, END_OF_TRANSMISSION, all
\* delivered.
EndToEndSession ==
    /\ session.config \in {ConfigA, ConfigB}
    /\ session.frames # <<>>
    /\ session.frames[Len(session.frames)].name = END_OF_TRANSMISSION
    /\ \A k \in 1..(Len(session.frames) - 1) : ~SentinelName(session.frames[k].name)
    /\ session.cut = WholeLen(session.config, session.frames, session.producer)

\* One batch per data frame with a valid ADC line, in wire order.
RECURSIVE ExpectedBatches(_, _)
ExpectedBatches(frames, interval) ==
    IF frames = <<>> THEN <<>>
    ELSE (IF ExpectedAdc(frames[1].content) # <<>> /\ ~SentinelName(frames[1].name)
          THEN <<[raw_adc_values |-> ExpectedAdc(frames[1].content),
                  num_samples |-> Len(ExpectedAdc(frames[1].content)),
                  interval_ms |-> interval,
                  file_name |-> frames[1].name]>>
          ELSE <<>>)
         \o ExpectedBatches(Tail(frames), interval)

\* C8: end-to-end receive.  For such a session, when the client has connected
\* and the window stays open, the network thread ends with interval i decoded, exactly the expected
\* batches offered to the queue in wire order, its loop ended by
\* END_OF_TRANSMISSION and itself marked finished.
C8_EndToEnd ==
    (npc = "done" /\ net_end # "not connected" /\ plotting_active = 1
        /\ EndToEndSession) =>
       /\ interval_ms = ExpectedInterval(session.config)
       /\ [k \in 1..Len(offered) |-> offered[k].item]
             = ExpectedBatches(session.frames, ExpectedInterval(session.config))
       /\ net_end = "end of transmission"
       /\ network_thread_running = 0

\* The batches the queue accepted, in order.
Accepted == SelectSeq(offered, LAMBDA o : o.queued)

\* C9: strict FIFO under concurrency.  The batches dequeued so far are exactly
\* the first ones accepted, in that order, and outside the critical section
\* the queue holds exactly the accepted batches not yet dequeued, in order.
C9_Fifo ==
    /\ Len(dequeued) <= Len(Accepted)
    /\ \A k \in 1..Len(dequeued) : dequeued[k] = Accepted[k].item
    /\ queue_lock = "free" =>
          /\ queue_count = Len(Accepted) - Len(dequeued)
          /\ \A i \in 0..(queue_count - 1) :
                data_queue[(queue_head + i) % QUEUE_SIZE]
                   = Accepted[Len(dequeued) + 1 + i].item

\* The callback waits for the lock the network thread holds, after both
\* threads have been through the queue.
C9_Witness ==
    /\ gpc = "lock" /\ queue_lock = "net"
    /\ Len(dequeued) >= 2 /\ queue_count >= 1

\* C10: enqueue on a full queue.  When the network thread makes its test
\* with queue_count = 10, the batch is dropped and the queue's indices,
\* count and slots stay as they are.
C10_FullQueue ==
    [][(npc = "enq_store" /\ npc' # "enq_store" /\ queue_count = QUEUE_SIZE) =>
          /\ UNCHANGED <<data_queue, queue_head, queue_tail, queue_count>>
          /\ offered' = Append(offered, [item |-> DataItem, queued |-> FALSE])]_vars

\* A batch has been dropped and the queue still holds 10.
C10_Witness ==
    /\ queue_count = QUEUE_SIZE
    /\ \E k \in 1..Len(offered) : ~offered[k].queued

-----------------------------------------------------------------------------
(* C11..C20.                                                                *)

\* The last n elements of a sequence.
LastN(seq, n) == SubSeq(seq, Len(seq) - n + 1, Len(seq))

C12_WarmUpNaN ==
    LET plotted == get_circular_buffer_snapshot(current_filtered_buffer).snapshot
    IN  \A j \in 1..Len(plotted) : j < min_dsp_samples => plotted[j] = NAN

\* The k-th batch the queue accepted has been dequeued and drained to its
\* last sample.
Drained(k) ==
    \/ Len(dequeued) > k
    \/ /\ Len(dequeued) = k
       /\ gpc # "dequeue_count"
       /\ g_file_state.current_file_index >= g_file_state.current_file_num_samples

\* C13: every enqueued batch is eventually processed.  As long as the window
\* is not closed, each batch the network thread has put into the queue is
\* eventually dequeued by the callback and drained to its last sample.
C13_EventuallyProcessed ==
    \A k \in 1..LiveFiles :
       [](Len(Accepted) >= k => <>(plotting_active = 0 \/ Drained(k)))

\* C14: completion is never signalled early.  The callback calls
\* gtk_main_quit for "no more data" only when the network thread has started
\* and has finished, the queue is empty and no batch is draining.
C14_NoEarlyCompletion ==
    [][(gpc = "check_count" /\ gtk_main' = "quit") =>
          /\ npc = "done"
          /\ queue_count = 0
          /\ g_file_state.is_processing_file = 0]_vars

\* Every send() of the session so far took its whole buffer.
EverySendWhole == \A i \in 1..Len(sends) : sends[i].ret = sends[i].len

\* The configuration frame went out.
ConfigWasSent == \E i \in 1..Len(sends) : sends[i].field = "config"

\* The session is over, it got as far as sending the configuration, no send
\* met an error and the window was not closed.
NormalSessionOver ==
    /\ spc = "done"
    /\ ConfigWasSent
    /\ EverySendWhole
    /\ ~terminate_server_thread

\* C15: END_OF_TRANSMISSION always ends a normal session.  When a producer
\* session that sent its configuration, met no send error and was not
\* cancelled is over, the last frame on the wire is END_OF_TRANSMISSION with
\* length 0, whatever the mode and whatever the folder holds.
C15_EndsWithEot ==
    NormalSessionOver =>
       LET eot == SendFileBytes(END_OF_TRANSMISSION, <<>>)
       IN  /\ Len(wire) >= Len(eot)
           /\ LastN(wire, Len(eot)) = eot

\* The frame the iteration owes for one entry of its file list: the file
\* itself, or, when it is absent or cannot be opened, NO_FILE_FOUND:<name>
\* with content length 0.
OwedFrame(f) ==
    IF f.access_ok /\ f.fopen_ok
    THEN SendFileBytes(f.name, f.content)
    ELSE SendFileBytes(NO_FILE_FOUND_ \o f.name, <<>>)

RECURSIVE OwedFrames(_)
OwedFrames(list) ==
    IF list = <<>> THEN <<>> ELSE OwedFrame(Head(list)) \o OwedFrames(Tail(list))

\* C16: a missing file is recoverable on the producer.  When an interval
\* session whose folder was read ends without a send error and without
\* cancellation, the wire holds, after the configuration, one frame for each
\* file of the sorted list in turn: the file, or, for a file that is absent
\* or cannot be opened, one frame NO_FILE_FOUND:<name> of content length 0;
\* the files after a missing one are still sent.
C16_MissingFileRecoverable ==
    NormalSessionOver /\ srv_in.mode = "interval" /\ srv_in.dir_ok =>
       wire = SendConfigBytes(config_msg)
                 \o OwedFrames(SortNames(TxtFiles))
                 \o SendFileBytes(END_OF_TRANSMISSION, <<>>)

\* The recv() of the recvall in progress finds the connection at its end.
RecvallFails ==
    /\ npc \in ReadStates
    /\ rx_ret = <<>>
    /\ total_received < rx_len
    /\ sock_in = <<>>

\* The network thread is at or past the closesocket that ends it.
Closing == npc \in {"close", "done"}

\* C17: a read failure closes the consumer session at once.  The step of the
\* network thread in which a recvall fails, in any of the six fields, leads
\* to the closing of the socket; from then on the thread starts no further
\* recvall, takes no byte from the connection, offers nothing to the queue,
\* and when it has returned network_thread_running is 0.
C17_ReadFailureCloses ==
    [][/\ (RecvallFails /\ npc' # npc) =>
             /\ net_end' = "disconnected"
             /\ Closing'
             /\ offered' = offered
       /\ net_end = "disconnected" =>
             /\ Closing /\ Closing'
             /\ sock_in' = sock_in
             /\ offered' = offered
             /\ data_queue' = data_queue
             /\ (npc' = "done" => network_thread_running' = 0)]_vars

\* The content of a file broke off after a part of it was received: the
\* thread has returned with the part in its buffer and nothing offered.
C17_Witness ==
    /\ net_end = "disconnected"
    /\ npc = "done"
    /\ network_thread_running = 0
    /\ rx_log # <<>>
    /\ LastLog.phase = "content"
    /\ rx_buf # <<>>
    /\ offered = <<>>

\* C18: a write failure ends the producer session.  A send() that failed is
\* the last send() of the session: after it the producer calls send() for no
\* remaining field of the frame, for no later frame and for no
\* END_OF_TRANSMISSION.
C18_WriteFailureEnds ==
    \A i \in 1..Len(sends) : sends[i].ret < 0 => i = Len(sends)

\* C19: the config frame is sent exactly once and first.  The first send()
\* of a session is the configuration length and the second the configuration
\* text, no later send() is either of them, and once the text was sent
\* without an error the bytes on the wire begin with exactly the config
\* frame, 4-byte length plus text, before any named frame.
C19_ConfigOnceAndFirst ==
    /\ \A i \in 1..Len(sends) :
          /\ sends[i].field = "config length" <=> i = 1
          /\ sends[i].field = "config" <=> i = 2
    /\ (Len(sends) >= 2 /\ sends[2].ret >= 0) =>
          LET frame == SendConfigBytes(config_msg)
          IN  /\ Len(wire) >= Len(frame)
              /\ Take(wire, Len(frame)) = frame

\* The text has a line "<key>:<value>" with this key (key includes the colon).
HasKey(text, key) ==
    \E i \in 1..Len(Strtok(text)) : IsPrefix(key, Strtok(text)[i])

\* C20: config decode falls back to defaults.  When a consumer has received
\* the whole configuration text it goes on to the frames, whatever the text
\* holds; if no line of the text has the key INTERVAL its interval is 20, and
\* if no line has the key MODE the mode of the command-line client is
\* "interval"; lines with other keys change neither.
C20_ConfigDefaults ==
    [][/\ (Received("config_data") /\ npc' # npc) =>
             /\ npc' = "loop"
             /\ ~HasKey(CStr(rx_buf), KEY_INTERVAL) => interval_ms' = DEFAULT_INTERVAL_MS
       /\ (CliReturned("config_data") /\ ~RecvAllFailed /\ cli_pc' # cli_pc) =>
             /\ cli_pc' = "filename_len"
             /\ ~HasKey(CStr(cli_buf), KEY_INTERVAL) =>
                   cli_interval_ms' = DEFAULT_INTERVAL_MS
             /\ ~HasKey(CStr(cli_buf), KEY_MODE) => cli_mode' = DEFAULT_MODE]_vars

-----------------------------------------------------------------------------
(* C21..C30.                                                                *)

\* The batch the callback holds: dequeued and not yet saved.
Draining == g_file_state.is_processing_file = 1

NetOwns(ptr) == npc \in {"enq_lock", "enq_store"} /\ ptr = NetArray

\* The processing side has the pointer: in the item it pulled or in g_file_state.
GuiOwns(ptr) == ptr # 0 /\ (mem.data_item = ptr \/ mem.in_state = ptr)

\* The slots of data_queue that hold an item, seen with the lock free.
LiveSlots == {(queue_head + i) % QUEUE_SIZE : i \in 0..(queue_count - 1)}

\* C22: a batch has exactly one owner.  No sample array is freed twice or read
\* after it was freed; the processing side never has the pointer of the array
\* the network thread is still working with, has only pointers of arrays that
\* went through the queue, and, until main() frees what is left at exit, only
\* of arrays that are not freed; an array whose pointer is in the queue is
\* neither freed nor in the hands of the processing side.
C22_OneOwner ==
    /\ \A ptr \in 1..Len(mem.arrays) :
          /\ mem.arrays[ptr].frees <= 1
          /\ mem.arrays[ptr].stale = 0
          /\ ~(NetOwns(ptr) /\ GuiOwns(ptr))
          /\ GuiOwns(ptr) =>
                /\ ptr <= Len(offered) /\ offered[ptr].queued
                /\ gtk_main # "exit" => mem.arrays[ptr].frees = 0
    /\ queue_lock = "free" =>
          \A i \in LiveSlots :
             /\ mem.in_slot[i] # 0
             /\ mem.arrays[mem.in_slot[i]].frees = 0
             /\ ~GuiOwns(mem.in_slot[i])
             /\ \A j \in LiveSlots : mem.in_slot[i] = mem.in_slot[j] => i = j

\* The program has ended after the window was closed: a batch was dropped
\* with the queue full and freed by the network thread, one was drained and
\* freed by the callback, and the one in progress was freed by main().
C22_Witness ==
    /\ gtk_main = "exit"
    /\ plotting_active = 0
    /\ \E k \in 1..Len(offered) : ~offered[k].queued /\ mem.arrays[k].frees = 1
    /\ written # <<>>
    /\ mem.arrays[1].frees = 1
    /\ mem.in_state # 0
    /\ mem.arrays[mem.in_state].frees = 1

\* The step is a send() that returned an error.
SendFailsNow == Len(sends') > Len(sends) /\ sends'[Len(sends')].ret < 0

\* C23: cancellation is honoured only at frame boundaries.  send_file leaves
\* the content of a frame whose content length it has written only when it
\* has handed all of the content to send() or a send() has just failed, and
\* the network thread of the consumer stops for plotting_active only where it
\* is about to start a frame.
C23_FrameBoundaries ==
    [][/\ (spc = "send_file" /\ sf.pc = "chunk" /\ spc' # "send_file") =>
             (sf.rest = <<>> \/ SendFailsNow)
       /\ (net_end # "stopped" /\ net_end' = "stopped") => npc = "loop"]_vars

\* C24: an overlong name is a protocol error.  Once the network thread has
\* received a name length of sizeof(file_name) or more, it is closing the
\* session: it reads no name for that frame, decodes none and reads nothing
\* after it.
C24_OverlongNameFails ==
    (rx_log # <<>> /\ LastLog.name_length >= FILE_NAME_SIZE) =>
       /\ Closing
       /\ LastLog.phase = "name"
       /\ LastLog.name = <<>>

\* The network thread has returned, the queue is empty and no batch is draining.
NothingLeft ==
    /\ npc = "done"
    /\ queue_count = 0
    /\ ~Draining
    /\ gpc # "dequeue_count"

\* C25: completion is eventually signalled.  Once the network thread has
\* returned and every batch it enqueued has been drained, gtk_main
\* eventually returns.
C25_EventuallyQuits == NothingLeft ~> gtk_main # "running"

\* The three buffers the callback pushes into.
PlotBuffers == <<dsp_raw_adc_buffer, current_raw_buffer, current_filtered_buffer>>

\* The cursor of the batch that is draining.
Cursor == g_file_state.current_file_index

Values(seq) == {seq[i] : i \in DOMAIN seq}

\* x is a weight or a filtered value computed from the samples adc, over a
\* window of at most n of them, or the NaN pushed before the filter has data.
DerivedFrom(x, adc, n) ==
    \/ x = NAN
    \/ "weight_of" \in DOMAIN x /\ x.weight_of \in adc
    \/ "dc_removed" \in DOMAIN x /\ x.dc_removed \in adc /\ x.window_len <= n

\* What a snapshot of the buffer returns.
SnapshotOf(cb) == get_circular_buffer_snapshot(cb).snapshot

\* C27: state is reset when a batch starts draining.  Right after the
\* dequeue the three buffers are empty and the accumulated sequences and the
\* lengths of the last FIR and FFT results are zero; while the batch drains,
\* a snapshot of any of the three buffers holds only values computed from
\* samples of this batch consumed so far; and what is saved for the k-th
\* batch holds only values computed from the samples of the k-th batch, with
\* FIR and FFT results only if this batch was long enough to produce them.
C27_ResetOnDequeue ==
    /\ (Draining /\ Cursor = 0) =>
          /\ \A b \in 1..3 : PlotBuffers[b].count = 0 /\ SnapshotOf(PlotBuffers[b]) = <<>>
          /\ g_file_state.all_raw_weights_to_save = <<>>
          /\ g_file_state.all_filtered_weights_to_save = <<>>
          /\ g_file_state.last_fir_coefficients_len_to_save = 0
          /\ g_file_state.last_fft_frequencies_len_to_save = 0
    /\ Draining =>
          LET so_far == Values(SubSeq(g_file_state.current_file_raw_adc_values, 1, Cursor))
          IN  /\ Values(SnapshotOf(dsp_raw_adc_buffer)) \subseteq so_far
              /\ \A x \in Values(SnapshotOf(current_raw_buffer)) :
                    DerivedFrom(x, so_far, Cursor)
              /\ \A x \in Values(SnapshotOf(current_filtered_buffer)) :
                    DerivedFrom(x, so_far, Cursor)
    /\ \A k \in 1..Len(written) :
          LET adc == Values(dequeued[k].raw_adc_values)
              n == dequeued[k].num_samples
          IN  /\ \A x \in Values(written[k].raw_weights_all) : DerivedFrom(x, adc, n)
              /\ \A x \in Values(written[k].filtered_weights_all) : DerivedFrom(x, adc, n)
              /\ n < min_dsp_samples =>
                    written[k].fir_coeff_len = 0 /\ written[k].fft_freq_len = 0

\* The second batch is draining after a first one that filled the buffers
\* and left FIR and FFT results: the buffers hold one value, of this batch.
C27_Witness ==
    /\ Draining /\ Len(dequeued) = 2 /\ Cursor = 1
    /\ Len(written) = 1 /\ written[1].fir_coeff_len = FIR_NUM_TAPS
    /\ Len(current_raw_buffer.data) = PLOT_BUFFER_SIZE
    /\ SnapshotOf(dsp_raw_adc_buffer) = <<dequeued[2].raw_adc_values[1]>>

\* The indices of a buffer are within its capacity and tail is count slots
\* after head.
WellFormed(cb) ==
    /\ 0 <= cb.count /\ cb.count <= cb.max_size
    /\ 0 <= cb.head /\ cb.head < cb.max_size
    /\ 0 <= cb.tail /\ cb.tail < cb.max_size
    /\ cb.tail = (cb.head + cb.count) % cb.max_size

\* The step is a push into a full buffer that leaves it full.
PushWhileFull ==
    /\ Len(pushed') = Len(pushed) + 1
    /\ one_cb.count = one_cb.max_size
    /\ one_cb'.count = one_cb.max_size

\* The step is a reset: head, tail and count are 0 after it.
ResetStep ==
    /\ pushed' = <<>>
    /\ one_cb'.head = 0 /\ one_cb'.tail = 0 /\ one_cb'.count = 0

\* A push leaves a full buffer full.
FullStaysFull ==
    (Len(pushed') = Len(pushed) + 1 /\ one_cb.count = one_cb.max_size) =>
        one_cb'.count = one_cb.max_size

\* C28 as stated: circular buffer structural invariant.  After every sequence
\* of pushes and resets the buffer is well formed; head changes only on a
\* push made while count = capacity, and such a push leaves count at
\* capacity.
C28_HeadOnlyOnFullPush ==
    /\ [](WellFormed(one_cb))
    /\ [][(one_cb'.head # one_cb.head => PushWhileFull) /\ FullStaysFull]_vars

\* C28, with the reset: after every sequence of pushes and resets the buffer
\* is well formed; head changes only on a push made while count = capacity,
\* which leaves count at capacity, or on a reset, which puts it back to 0.
C28_HeadOnFullPushOrReset ==
    /\ [](WellFormed(one_cb))
    /\ [][(one_cb'.head # one_cb.head => PushWhileFull \/ ResetStep) /\ FullStaysFull]_vars

\* Pushes into a full buffer have moved head off 0 and around.
C28_Witness ==
    /\ one_cb.max_size >= 2
    /\ Len(pushed) > one_cb.max_size
    /\ one_cb.count = one_cb.max_size
    /\ one_cb.head # 0
    /\ one_cb.tail = one_cb.head

\* The number of colons in a line.
Colons(line) == Cardinality({i \in DOMAIN line : line[i] = 58})

\* The text is lines "KEY:VALUE", separated by newline characters.
KeyValueLines(text) ==
    \A i \in 1..Len(Strtok(text)) :
       LET line == Strtok(text)[i]
       IN  Colons(line) = 1 /\ line[1] # 58 /\ line[Len(line)] # 58

\* The command-line client has decoded the configuration text.
CliDecoded == cli_pc \notin {"off", "start", "config_len", "config_data"} /\ cli_mode # <<>>

\* C29: config round-trip between the shipped producer and consumer.  When
\* the session's configuration text is what send_config makes of an interval
\* and a mode, the text is KEY:VALUE lines separated by newline characters,
\* and the command-line client, once it has decoded the text, holds that
\* interval and that mode.
C29_ConfigRoundTrip ==
    (session.config = send_config(HandleClientIntervalMs, HandleClientMode) /\ CliDecoded) =>
        /\ KeyValueLines(session.config)
        /\ cli_interval_ms = HandleClientIntervalMs
        /\ cli_mode = HandleClientMode

\* C30: a zero-length data frame does not end the session.  A consumer that
\* has read a name that is not a sentinel and the content length 0 reads the
\* zero content bytes, takes the payload as empty and goes on to read the
\* next frame: it does not report a disconnect and does not leave its loop.
C30_EmptyFrameGoesOn ==
    [][/\ (npc = "content" /\ rx_len = 0 /\ npc' # npc) =>
             /\ npc' = "loop"
             /\ raw_adc_values' = <<>>
             /\ net_end' = net_end
       /\ (cli_pc = "content" /\ cli_len = 0 /\ cli_pc' # cli_pc) =>
             /\ cli_pc' = "filename_len"
             /\ cli_end' = cli_end]_vars

-----------------------------------------------------------------------------
(* C31..C39.                                                                *)

\* What send_file puts on the wire for a file it is given: the name and, when
\* the file cannot be opened, a content length of 0.
FileFrame(f) == SendFileBytes(f.name, IF f.fopen_ok THEN f.content ELSE <<>>)

\* The one frame a freq or select_file session owes.
SingleFrame ==
    IF srv_in.mode = "freq"
    THEN IF srv_in.dir_ok /\ FreqMatches # <<>>
         THEN FileFrame(FreqMatches[1])
         ELSE SendFileBytes(NO_FILE_FOUND_ \o srv_in.freq_str \o HZ_SUFFIX, <<>>)
    ELSE IF srv_in.selected # <<>> /\ srv_in.selected[1].access_ok
         THEN FileFrame(srv_in.selected[1])
         ELSE SendFileBytes(NO_FILE_SELECTED, <<>>)

\* C31: frequency and single-selected modes send exactly one frame before the
\* terminator.  When a session in mode "freq" or "select_file" that sent its
\* configuration, met no send error and was not stopped is over, the wire
\* holds, after the configuration, exactly one named frame (the matching or
\* selected file, or NO_FILE_FOUND:<freq>Hz respectively NO_FILE_SELECTED
\* with content length 0), then END_OF_TRANSMISSION, and nothing else.
C31_OneFrameThenEot ==
    (NormalSessionOver /\ srv_in.mode \in {"freq", "select_file"}) =>
       wire = SendConfigBytes(config_msg)
                 \o SingleFrame
                 \o SendFileBytes(END_OF_TRANSMISSION, <<>>)

\* A frequency session that found its file is over.
C31_Witness ==
    /\ NormalSessionOver
    /\ srv_in.mode = "freq" /\ srv_in.dir_ok /\ FreqMatches # <<>>
    /\ Len(wire) > Len(SendConfigBytes(config_msg)) + Len(SendFileBytes(END_OF_TRANSMISSION, <<>>))

\* The frame the GUI server writes for an entry of its list: the file, or
\* NO_FILE_FOUND:<name> when access() fails.
IntervalFrame(f) ==
    IF f.access_ok THEN FileFrame(f) ELSE SendFileBytes(NO_FILE_FOUND_ \o f.name, <<>>)

RECURSIVE IntervalFrames(_)
IntervalFrames(list) ==
    IF list = <<>> THEN <<>> ELSE IntervalFrame(Head(list)) \o IntervalFrames(Tail(list))

RECURSIVE ByPathFrames(_)
ByPathFrames(list) ==
    IF list = <<>> THEN <<>> ELSE send_file_by_path(Head(list)) \o ByPathFrames(Tail(list))

\* C32: interval mode sends the eligible files in sorted order, each once.
\* When an interval-mode session that is not stopped and meets no send error
\* is over, the wire holds, after the configuration, one frame for each file
\* of the folder whose name contains ".txt", in ascending byte-wise order of
\* the names, and then the closing message: for the GUI server, and for
\* handle_client of the 11-07 server.
C32_SortedEachOnce ==
    /\ (NormalSessionOver /\ srv_in.mode = "interval" /\ srv_in.dir_ok) =>
          wire = SendConfigBytes(config_msg)
                    \o IntervalFrames(SortNames(TxtFiles))
                    \o SendFileBytes(END_OF_TRANSMISSION, <<>>)
    /\ (spc = "returned" /\ srv_in.dir_ok /\ TxtFiles # <<>>) =>
          wire = SendConfigBytes(config_msg)
                    \o ByPathFrames(SortNames(TxtFiles))
                    \o send_control_message(END_OF_TRANSMISSION)

\* C33: the 64-bit content length is big-endian and round-trips.  For every
\* content length, also those of 2^32 and more, the 8 bytes a producer sends
\* are the bytes of the length, most significant first, and what a consumer
\* composes from the two 32-bit halves of those bytes is the length again.
C33_LengthBigEndian ==
    /\ length_net # <<>> => length_net = length_host
    /\ length_back # <<>> => length_back = length_host

\* A length of 2^32 or more, with different bytes in both halves, has been
\* sent and composed again.
C33_Witness ==
    /\ length_back # <<>>
    /\ length_host[1] = 128 /\ length_host[2] = 1 /\ length_host[8] = 255
    /\ length_host[4] = 0 /\ length_host[5] = 0
    /\ length_back = length_host

\* s is an integer in decimal: an optional sign and digits, nothing else.
IsInteger(s) ==
    /\ s # <<>>
    /\ LET d == IF s[1] \in {43, 45} THEN Tail(s) ELSE s
       IN  d # <<>> /\ \A i \in 1..Len(d) : IsDigit(d[i])

\* The line has the form ADC:<integer>.
IsAdcLine(line) == IsPrefix(KEY_ADC, line) /\ IsInteger(Drop(line, Len(KEY_ADC)))

\* The integer of a line of that form.
AdcOf(line) ==
    LET t == Drop(line, Len(KEY_ADC))
    IN  IF t[1] = 45 THEN 0 - Digits(Tail(t), 0)
        ELSE IF t[1] = 43 THEN Digits(Tail(t), 0)
        ELSE Digits(t, 0)

\* The integers of the lines of the form ADC:<integer>, in payload order.
RECURSIVE AdcOfLines(_)
AdcOfLines(lines) ==
    IF lines = <<>> THEN <<>>
    ELSE (IF IsAdcLine(lines[1]) THEN <<AdcOf(lines[1])>> ELSE <<>>)
             \o AdcOfLines(Tail(lines))

PayloadSamples(payload) == AdcOfLines(Strtok(payload))

\* C34: ADC payload parsing is lenient and order-preserving.  When a
\* consumer has received the payload of a data frame, the samples it takes
\* from it are exactly the integers of the lines of the form ADC:<integer>,
\* in payload order; lines of any other form add no sample, and the consumer
\* goes on with the session whatever the lines are.
C34_LenientParse ==
    [][/\ (Received("content") /\ npc' # npc) =>
             /\ raw_adc_values' = PayloadSamples(rx_buf)
             /\ npc' \in {"enq_lock", "loop"}
       /\ (CliReturned("content") /\ cli_len > 0 /\ ~RecvAllFailed /\ cli_pc' # cli_pc) =>
             /\ ParseAdc(cli_buf) = PayloadSamples(cli_buf)
             /\ cli_pc' = "filename_len"]_vars

\* C35: at most one GLib source is attached to invoke
\* process_data_gui_callback, and while a file is being drained that source is
\* the timeout whose id is stored in data_processing_source_id.
C35_SingleSource ==
    /\ Cardinality(sources) <= 1
    /\ (gtk_main = "running" /\ gpc = "idle" /\ g_file_state.is_processing_file = 1)
          => sources = {data_processing_source_id}

\* The network thread is at EnterCriticalSection(&queue_lock) and the GUI
\* thread is inside the section.
NetWaits == npc = "enq_lock" /\ queue_lock = "gui"

\* The callback is at EnterCriticalSection(&queue_lock) and the network thread
\* is inside the section.  plot_lock is entered by the GUI thread only.
GuiWaits == gpc = "lock" /\ queue_lock = "net"

\* Where the network thread is while it holds queue_lock: the store and the
\* count, neither of which waits.
NetHolds == {"enq_store", "enq_count"}

\* C36: the two client threads never wait for each other at once; the GUI
\* thread enters queue_lock only while it has not entered plot_lock (the two
\* locks nest in the order queue_lock, plot_lock); and the network thread holds
\* queue_lock only where it does not wait.
C36_LockDiscipline ==
    [][/\ ~(NetWaits /\ GuiWaits)
       /\ (queue_lock # "gui" /\ queue_lock' = "gui") => plot_lock = 0
       /\ queue_lock = "net" => npc \in NetHolds]_vars

\* C37: app_widgets is freed only when no session thread runs: once the
\* structure is freed, the thread has returned (or none was created),
\* whatever the order of the thread's last statements, the clicks on Start
\* and the closing of the window.
C37_JoinBeforeFree == app_widgets = "freed" => ThreadReturned

\* The user has closed the window of the client: on_window_destroy has cleared
\* plotting_active and gtk_main() has returned.
WindowClosed == plotting_active = 0 /\ gtk_main = "quit"

\* C38: once the user has closed the client's window, the network thread
\* leaves its loop and main()'s wait for it returns, wherever the thread was,
\* also inside a read on a connection the server keeps open without sending.
C38_ShutdownTerminates == WindowClosed ~> gtk_main = "exit"

\* C39: the state of the filter fits in firState_f32: whenever process_data
\* calls arm_fir_init_f32, FIR_NUM_TAPS + blockSize - 1 is at most the
\* number of entries of firState_f32, that is blockSize <= BUFFER_SIZE.
C39_FirStateFits ==
    blockSize # <<>> =>
        /\ FIR_NUM_TAPS + blockSize[1] - 1 <= firState_f32
        /\ blockSize[1] <= BUFFER_SIZE

====
